---- MODULE Spec2Model ----
(***************************************************************************)
(* A model of armada_inventory_app (src/index.tsx): the client-side       *)
(* category / subcategory / product consistency rules of App, the two     *)
(* live collections that mirror the remote store into the client, and the *)
(* browser-history state machine of the view selection.                   *)
(*                                                                         *)
(* The remote store is a pair of keyed collections.  A handler computes   *)
(* a multi-path update from the client's current in-memory lists (its     *)
(* last delivered snapshots) and the store applies the update as one      *)
(* call.  Snapshot delivery is a step of its own, so a handler can run on *)
(* lists that are older than the store.                                   *)
(***************************************************************************)
EXTENDS Integers, Sequences, FiniteSets, TLC

VARIABLES
  storeCats,              \* /categories : key -> {name, subcategories}
  storeProds,             \* /products   : key -> product record
  nextCatKey,             \* next key push() hands out under /categories
  nextProdKey,            \* next key push() hands out under /products
  categories,             \* App state: categories (last categories snapshot)
  items,                  \* App state: items (last products snapshot)
  initialCategoriesLoaded,
  initialItemsLoaded,
  categoriesSubscribed,   \* the categories onValue listener is attached
  itemsSubscribed,        \* the products onValue listener is attached
  isModalOpen,
  editingItem,            \* id of the item being edited, 0 for none
  isProcessing,           \* ItemModal state: the rendered modal awaits its save
  saves,                  \* the writes of the form's saves the client has sent
  viewMode,
  selectedCategoryForView,
  selectedSubcategoryForView,
  hist,                   \* the browser's session history: a sequence of entries
  histPos,                \* index in hist of the current entry
  historyIndexRef,
  isHandlingPopStateRef,
  isInitialHistoryRef,
  hasSeededHistoryRef,
  navLog,                 \* history variable: the events since mount, in order
  lastOp                  \* history variable: the handler that ran last

storeVars == <<storeCats, storeProds, nextCatKey, nextProdKey>>
syncVars  == <<categories, items, initialCategoriesLoaded, initialItemsLoaded,
               categoriesSubscribed, itemsSubscribed>>
modalVars == <<isModalOpen, editingItem, isProcessing, saves>>
viewVars  == <<viewMode, selectedCategoryForView, selectedSubcategoryForView>>
histVars  == <<hist, histPos, historyIndexRef, isHandlingPopStateRef,
               isInitialHistoryRef, hasSeededHistoryRef>>
vars == <<storeCats, storeProds, nextCatKey, nextProdKey, categories, items,
          initialCategoriesLoaded, initialItemsLoaded, categoriesSubscribed,
          itemsSubscribed, isModalOpen, editingItem, isProcessing, saves,
          viewMode, selectedCategoryForView, selectedSubcategoryForView,
          hist, histPos, historyIndexRef, isHandlingPopStateRef,
          isInitialHistoryRef, hasSeededHistoryRef, navLog, lastOp>>

----------------------------------------------------------------------------
(* Bounds of the model.                                                    *)

\* keys push() can hand out under /categories
MaxCatKeys == 2
\* keys push() can hand out under /products
MaxProdKeys == 1
\* largest quantity a form or a direct save puts on a size
MaxQty == 2
\* navigation events (in-app navigations, native back / forward) after mount
MaxEvents == 6
\* saves the form sends without awaiting the store within one step
MaxSaves == 1

CatIds  == 1..MaxCatKeys
ProdIds == 1..MaxProdKeys

----------------------------------------------------------------------------
(* Values.                                                                 *)

SIZES == <<"XS", "S", "M", "L", "XL", "XXL", "3XL">>
Sizes == {SIZES[i] : i \in 1..Len(SIZES)}

APP_HISTORY_KEY == "inventory-app"

\* JavaScript's undefined (a field the store does not hold) and null
Undefined == "#undefined"
Null      == "#null"

Uncategorized == "Uncategorized"
Default       == "Default"

\* String.prototype.toLowerCase on the names the model uses
ToLowerCase(s) ==
  CASE s = "Uncategorized" -> "uncategorized"
    [] s = "Shoes"         -> "shoes"
    [] s = "Default"       -> "default"
    [] s = "Boots"         -> "boots"
    [] OTHER               -> s

\* The order Array.prototype.sort() puts strings in (UTF-16 code units:
\* every upper-case letter comes before every lower-case one).
CodeUnitRank(s) ==
  CASE s = "Boots"         -> 1
    [] s = "Default"       -> 2
    [] s = "Shoes"         -> 3
    [] s = "Uncategorized" -> 4
    [] s = "boots"         -> 5
    [] s = "default"       -> 6
    [] s = "shoes"         -> 7
    [] s = "uncategorized" -> 8
    [] OTHER               -> 9

Includes(seq, x) == \E i \in 1..Len(seq) : seq[i] = x

Filter(seq, x) == SelectSeq(seq, LAMBDA e : e # x)

\* [...new Set(seq)] : the first occurrence of each element, in order
RECURSIVE Dedup(_)
Dedup(seq) ==
  IF seq = <<>> THEN <<>>
  ELSE LET init == Dedup(SubSeq(seq, 1, Len(seq) - 1))
           last == seq[Len(seq)]
       IN IF Includes(init, last) THEN init ELSE Append(init, last)

Sort(seq) == SortSeq(seq, LAMBDA a, b : CodeUnitRank(a) < CodeUnitRank(b))

\* a variant that leaves the new name at the end of the list
WithSubcategoryAppended(subs, name) == Dedup(Append(subs, name))

\* [...new Set([...subs, name])].sort()
WithSubcategory(subs, name) == Sort(Dedup(Append(subs, name)))

Min(S) == CHOOSE x \in S : \A y \in S : x <= y

----------------------------------------------------------------------------
(* Store records.                                                          *)

\* A key of /categories the store holds nothing under.  An empty
\* subcategory list is not stored: the field is then undefined.
NoCat == [name |-> Undefined, subcategories |-> <<>>]

CatExists(c) == c.name # Undefined \/ c.subcategories # <<>>

ProdFields == {"name", "sku", "price", "category", "subcategory"} \cup Sizes

ZeroSizes == [s \in Sizes |-> 0]

\* A key of /products the store holds nothing under; has is the set of
\* fields (each size a field of its own) the store holds under the key.
NoProd == [name |-> Undefined, sku |-> Undefined, price |-> 0,
           category |-> Undefined, subcategory |-> Undefined,
           sizes |-> ZeroSizes, has |-> {}]

ProdExists(p) == p.has # {}

\* interface InventoryItem, as written whole by a save
FullProd(name, sku, price, category, subcategory, sizes) ==
  [name |-> name, sku |-> sku, price |-> price, category |-> category,
   subcategory |-> subcategory, sizes |-> sizes, has |-> ProdFields]

\* item.sizes[size] || 0
QtyOf(item, size) == IF size \in item.has THEN item.sizes[size] ELSE 0

\* categories.find(c => c.name === name): the key of the first match, 0 for none
FindCatByName(cats, name) ==
  LET S == {i \in DOMAIN cats : CatExists(cats[i]) /\ cats[i].name = name}
  IN IF S = {} THEN 0 ELSE Min(S)

\* categories.find(c => c.name.toLowerCase() === name.toLowerCase())
FindCatIgnoreCase(cats, name) ==
  LET S == {i \in DOMAIN cats : CatExists(cats[i])
                /\ ToLowerCase(cats[i].name) = ToLowerCase(name)}
  IN IF S = {} THEN 0 ELSE Min(S)

\* the find above reads c.name.toLowerCase() of every entry up to the first
\* match: an entry without a name before it is a TypeError
FindIgnoreCaseThrows(cats, name) ==
  LET m == FindCatIgnoreCase(cats, name)
  IN \E i \in DOMAIN cats : /\ CatExists(cats[i])
                            /\ cats[i].name = Undefined
                            /\ (m = 0 \/ i < m)

----------------------------------------------------------------------------
(* Multi-path writes.  One record stands for the mapping from path to     *)
(* value that update(), set() or remove() sends in one call.              *)

\*  catSet[k]       /categories/k                 = a whole category
\*  catSubs[k]      /categories/k/subcategories   = a list (<<>> is null)
\*  catDel          /categories/k                 = null
\*  prodSet[k]      /products/k                   = a whole product
\*  prodCat[k]      /products/k/category          = a name
\*  prodSub[k]      /products/k/subcategory       = a name
\*  prodSize[k, s]  /products/k/sizes/s           = a number
\*  prodDel         /products/k                   = null
NoUpdates ==
  [catSet |-> <<>>, catSubs |-> <<>>, catDel |-> {}, prodSet |-> <<>>,
   prodCat |-> <<>>, prodSub |-> <<>>, prodSize |-> <<>>, prodDel |-> {}]

\* Object.keys(updates).length
PathCount(u) ==
  Cardinality(DOMAIN u.catSet) + Cardinality(DOMAIN u.catSubs)
  + Cardinality(u.catDel) + Cardinality(DOMAIN u.prodSet)
  + Cardinality(DOMAIN u.prodCat) + Cardinality(DOMAIN u.prodSub)
  + Cardinality(DOMAIN u.prodSize) + Cardinality(u.prodDel)

\* the store's /categories after the write
ApplyCats(cats, u) ==
  [k \in DOMAIN cats |->
     IF k \in u.catDel THEN NoCat
     ELSE IF k \in DOMAIN u.catSet THEN u.catSet[k]
     ELSE IF k \in DOMAIN u.catSubs
          THEN [cats[k] EXCEPT !.subcategories = u.catSubs[k]]
     ELSE cats[k]]

\* the store's /products after the write: a write below /products/k makes
\* the fields it names and leaves the others as they are
ApplyProds(prods, u) ==
  [k \in DOMAIN prods |->
     IF k \in u.prodDel THEN NoProd
     ELSE IF k \in DOMAIN u.prodSet THEN u.prodSet[k]
     ELSE LET old == prods[k]
              written == {s \in Sizes : <<k, s>> \in DOMAIN u.prodSize}
          IN [old EXCEPT
                !.category = IF k \in DOMAIN u.prodCat THEN u.prodCat[k] ELSE @,
                !.subcategory = IF k \in DOMAIN u.prodSub THEN u.prodSub[k] ELSE @,
                !.sizes = [s \in Sizes |->
                             IF s \in written THEN u.prodSize[<<k, s>>]
                             ELSE old.sizes[s]],
                !.has = @ \cup written
                          \cup (IF k \in DOMAIN u.prodCat THEN {"category"} ELSE {})
                          \cup (IF k \in DOMAIN u.prodSub THEN {"subcategory"} ELSE {})]]

----------------------------------------------------------------------------
(* Live collection sync: what a snapshot becomes in the client.            *)

\* categories onValue callback: { id: key, ...data[key] } for every key
CategoriesFromSnapshot(data) == data

\* a variant that takes a product as the store holds it
ItemFromSnapshotAsStored(itemData) == itemData

\* products onValue callback: a product without a sizes field gets every
\* size at 0
ItemFromSnapshot(itemData) ==
  IF ProdExists(itemData) /\ itemData.has \cap Sizes = {}
  THEN [itemData EXCEPT !.sizes = ZeroSizes, !.has = @ \cup Sizes]
  ELSE itemData

ItemsFromSnapshot(data) == [k \in DOMAIN data |-> ItemFromSnapshot(data[k])]

----------------------------------------------------------------------------
(* handleSaveItem                                                          *)

\* categoryDef.subcategories.includes(..) or
\* uncategorizedCatDef.subcategories.includes(..) on an entry without a list
SaveItemThrows(cats, itemToSave) ==
  LET categoryDef == FindCatByName(cats, itemToSave.category)
      uncategorizedCatDef == FindCatByName(cats, Uncategorized)
  IN IF categoryDef = 0
     THEN uncategorizedCatDef # 0 /\ cats[uncategorizedCatDef].subcategories = <<>>
     ELSE cats[categoryDef].subcategories = <<>>

\* a variant that keeps the category the item states, found or not
ValidatedCategoryAsGiven(cats, itemToSave) == itemToSave.category

ValidatedCategory(cats, itemToSave) ==
  IF FindCatByName(cats, itemToSave.category) = 0
  THEN Uncategorized
  ELSE itemToSave.category

ValidatedSubcategory(cats, itemToSave) ==
  LET categoryDef == FindCatByName(cats, itemToSave.category)
  IN IF categoryDef = 0 THEN Default
     ELSE IF Includes(cats[categoryDef].subcategories, itemToSave.subcategory)
          THEN itemToSave.subcategory
          ELSE Default

\* the save needs a fresh /categories key
SaveNeedsCatKey(cats, itemToSave) ==
  /\ FindCatByName(cats, itemToSave.category) = 0
  /\ FindCatByName(cats, Uncategorized) = 0

\* a variant that adds "Default" to a found category that lacks it, whether
\* or not the item's subcategory is in the list
SaveCategoryFixEager(cats, itemToSave, catKey) ==
  LET categoryDef == FindCatByName(cats, itemToSave.category)
  IN IF categoryDef # 0 /\ ~Includes(cats[categoryDef].subcategories, Default)
     THEN [NoUpdates EXCEPT !.catSubs =
             categoryDef :> WithSubcategory(cats[categoryDef].subcategories, Default)]
     ELSE NoUpdates

\* a variant that repairs "Uncategorized" alone, never a found category
SaveCategoryFixUncategorizedOnly(cats, itemToSave, catKey) ==
  LET categoryDef == FindCatByName(cats, itemToSave.category)
      uncategorizedCatDef == FindCatByName(cats, Uncategorized)
  IN IF categoryDef = 0
     THEN IF uncategorizedCatDef = 0
          THEN [NoUpdates EXCEPT !.catSet =
                  catKey :> [name |-> Uncategorized, subcategories |-> <<Default>>]]
          ELSE IF ~Includes(cats[uncategorizedCatDef].subcategories, Default)
          THEN [NoUpdates EXCEPT !.catSubs =
                  uncategorizedCatDef :>
                    WithSubcategory(cats[uncategorizedCatDef].subcategories, Default)]
          ELSE NoUpdates
     ELSE NoUpdates

\* the category fix scheduled beside the product
SaveCategoryFix(cats, itemToSave, catKey) ==
  LET categoryDef == FindCatByName(cats, itemToSave.category)
      uncategorizedCatDef == FindCatByName(cats, Uncategorized)
  IN IF categoryDef = 0
     THEN IF uncategorizedCatDef = 0
          THEN [NoUpdates EXCEPT !.catSet =
                  catKey :> [name |-> Uncategorized, subcategories |-> <<Default>>]]
          ELSE IF ~Includes(cats[uncategorizedCatDef].subcategories, Default)
          THEN [NoUpdates EXCEPT !.catSubs =
                  uncategorizedCatDef :>
                    WithSubcategory(cats[uncategorizedCatDef].subcategories, Default)]
          ELSE NoUpdates
     ELSE IF /\ ~Includes(cats[categoryDef].subcategories, itemToSave.subcategory)
             /\ ~Includes(cats[categoryDef].subcategories, Default)
          THEN [NoUpdates EXCEPT !.catSubs =
                  categoryDef :> WithSubcategory(cats[categoryDef].subcategories, Default)]
          ELSE NoUpdates

\* the whole batch: the category fix and finalItemData under the item's key
\* (a fresh key when itemToSave.id is empty)
SaveItemUpdates(cats, itemToSave, catKey, prodKey) ==
  LET key == IF itemToSave.id # 0 THEN itemToSave.id ELSE prodKey
      finalItemData ==
        FullProd(itemToSave.name, itemToSave.sku, itemToSave.price,
                 ValidatedCategory(cats, itemToSave),
                 ValidatedSubcategory(cats, itemToSave), itemToSave.sizes)
  IN [SaveCategoryFix(cats, itemToSave, catKey) EXCEPT !.prodSet = key :> finalItemData]

----------------------------------------------------------------------------
(* handleDeleteCategory                                                    *)

\* a variant without the guard on the fallback category
DeleteCategoryRejectedById(categoryId, categoryName) == categoryId = 0

\* the early return of the handler
DeleteCategoryRejected(categoryId, categoryName) ==
  categoryName = Uncategorized \/ categoryId = 0

\* uncategorizedCat.subcategories.includes('Default') on an entry without a
\* list: thrown inside the try, so the handler writes nothing
DeleteCategoryThrows(cats) ==
  LET uncategorizedCat == FindCatByName(cats, Uncategorized)
  IN uncategorizedCat # 0 /\ cats[uncategorizedCat].subcategories = <<>>

DeleteNeedsCatKey(cats) == FindCatByName(cats, Uncategorized) = 0

\* items.filter(item => item.category === categoryName)
ItemsInCategory(itms, categoryName) ==
  {k \in DOMAIN itms : ProdExists(itms[k]) /\ itms[k].category = categoryName}

\* a variant that deletes the category's products with it
DeleteCategoryUpdatesCascade(cats, itms, categoryId, categoryName, catKey) ==
  [NoUpdates EXCEPT !.prodDel = ItemsInCategory(itms, categoryName),
                    !.catDel = {categoryId}]

DeleteCategoryUpdates(cats, itms, categoryId, categoryName, catKey) ==
  LET itemsToReassign == ItemsInCategory(itms, categoryName)
      uncategorizedCat == FindCatByName(cats, Uncategorized)
      fallback ==
        IF uncategorizedCat = 0
        THEN [NoUpdates EXCEPT !.catSet =
                catKey :> [name |-> Uncategorized, subcategories |-> <<Default>>]]
        ELSE IF ~Includes(cats[uncategorizedCat].subcategories, Default)
        THEN [NoUpdates EXCEPT !.catSubs =
                uncategorizedCat :>
                  WithSubcategory(cats[uncategorizedCat].subcategories, Default)]
        ELSE NoUpdates
  IN [fallback EXCEPT
        !.prodCat = [k \in itemsToReassign |-> Uncategorized],
        !.prodSub = [k \in itemsToReassign |-> Default],
        !.catDel = {categoryId}]

----------------------------------------------------------------------------
(* handleAddCategory, handleAddSubcategory                                 *)

AddCategoryRejected(cats, categoryName) == FindCatIgnoreCase(cats, categoryName) # 0

\* a variant that stores the new category without a subcategory list
AddCategoryUpdatesBare(categoryName, catKey) ==
  [NoUpdates EXCEPT !.catSet =
     catKey :> [name |-> categoryName, subcategories |-> <<>>]]

AddCategoryUpdates(categoryName, catKey) ==
  [NoUpdates EXCEPT !.catSet =
     catKey :> [name |-> categoryName, subcategories |-> <<Default>>]]

\* category.subcategories.find(s => s.toLowerCase() === ...)
HasSubcategoryIgnoreCase(subs, subcategoryName) ==
  \E i \in 1..Len(subs) : ToLowerCase(subs[i]) = ToLowerCase(subcategoryName)

\* every return before the write, the "Parent category not found" one included
AddSubcategoryRejected(cats, categoryId, categoryName, subcategoryName) ==
  \/ categoryId = 0
  \/ categoryName = Uncategorized
  \/ ~CatExists(cats[categoryId])
  \/ HasSubcategoryIgnoreCase(cats[categoryId].subcategories, subcategoryName)

AddSubcategoryUpdates(cats, categoryId, subcategoryName) ==
  [NoUpdates EXCEPT !.catSubs =
     categoryId :> WithSubcategory(cats[categoryId].subcategories, subcategoryName)]

----------------------------------------------------------------------------
(* handleDeleteSubcategory                                                 *)

\* a variant without the guard for a sole "Default"
DeleteSubcategoryRejectedFallbackOnly(cats, categoryId, categoryName, subcategoryName) ==
  \/ (categoryName = Uncategorized /\ subcategoryName = Default)
  \/ categoryId = 0
  \/ ~CatExists(cats[categoryId])

DeleteSubcategoryRejected(cats, categoryId, categoryName, subcategoryName) ==
  \/ (categoryName = Uncategorized /\ subcategoryName = Default)
  \/ categoryId = 0
  \/ ~CatExists(cats[categoryId])
  \/ /\ subcategoryName = Default
     /\ Len(cats[categoryId].subcategories) = 1
     /\ categoryName # Uncategorized

\* items.filter(item => item.category === categoryName
\*                      && item.subcategory === subcategoryName)
ItemsInSubcategory(itms, categoryName, subcategoryName) ==
  {k \in DOMAIN itms : /\ ProdExists(itms[k])
                       /\ itms[k].category = categoryName
                       /\ itms[k].subcategory = subcategoryName}

\* a variant that writes the filtered list as it is
UpdatedSubcategoriesFiltered(cats, itms, categoryId, categoryName, subcategoryName) ==
  Filter(cats[categoryId].subcategories, subcategoryName)

\* the list written to /categories/<id>/subcategories (<<>> is null)
UpdatedSubcategories(cats, itms, categoryId, categoryName, subcategoryName) ==
  LET filtered == Filter(cats[categoryId].subcategories, subcategoryName)
      itemsToReassign == ItemsInSubcategory(itms, categoryName, subcategoryName)
      afterItems ==
        IF itemsToReassign # {}
        THEN IF subcategoryName # Default /\ ~Includes(filtered, Default)
             THEN Sort(Append(filtered, Default))
             ELSE IF /\ subcategoryName = Default
                     /\ filtered = <<>>
                     /\ categoryName # Uncategorized
             THEN Append(filtered, Default)
             ELSE filtered
        ELSE filtered
      refilled ==
        IF categoryName # Uncategorized /\ afterItems = <<>>
        THEN Append(afterItems, Default)
        ELSE afterItems
  IN IF categoryName = Uncategorized /\ refilled = <<>> /\ subcategoryName = Default
     THEN <<Default>>
     ELSE refilled

DeleteSubcategoryUpdates(cats, itms, categoryId, categoryName, subcategoryName) ==
  LET itemsToReassign == ItemsInSubcategory(itms, categoryName, subcategoryName)
      targetSubcategory == Default
  IN [NoUpdates EXCEPT
        !.prodSub = [k \in itemsToReassign |-> targetSubcategory],
        !.catSubs = categoryId :>
           UpdatedSubcategories(cats, itms, categoryId, categoryName, subcategoryName)]

----------------------------------------------------------------------------
(* handleSellItemSize, handleDeleteItem                                    *)

\* a variant without the guard on the quantity
SellWritesUnguarded(itms, itemId, sizeToSell) ==
  /\ itemId # 0
  /\ itemId \in DOMAIN itms
  /\ ProdExists(itms[itemId])

\* the handler issues a write: the item is in the list and the size is in stock
SellWrites(itms, itemId, sizeToSell) ==
  /\ itemId # 0
  /\ itemId \in DOMAIN itms
  /\ ProdExists(itms[itemId])
  /\ QtyOf(itms[itemId], sizeToSell) > 0

SellUpdates(itms, itemId, sizeToSell) ==
  LET currentQuantity == QtyOf(itms[itemId], sizeToSell)
      newQuantity == currentQuantity - 1
  IN [NoUpdates EXCEPT !.prodSize = <<itemId, sizeToSell>> :> newQuantity]

DeleteItemUpdates(itemId) == [NoUpdates EXCEPT !.prodDel = {itemId}]

----------------------------------------------------------------------------
(* Navigation history.                                                     *)

\* a history entry that carries no state of this app
UntaggedEntry ==
  [app |-> Null, viewMode |-> Null, selectedCategoryForView |-> Null,
   selectedSubcategoryForView |-> Null, historyIndex |-> 0]

buildHistoryState(vm, sc, ss, index) ==
  [app |-> APP_HISTORY_KEY, viewMode |-> vm, selectedCategoryForView |-> sc,
   selectedSubcategoryForView |-> ss, historyIndex |-> index]

\* window.history.replaceState / pushState on the session history (h, pos)
ReplaceState(h, pos, entry) == [h EXCEPT ![pos] = entry]
PushState(h, pos, entry) == Append(SubSeq(h, 1, pos), entry)

HistoryRefs(h, pos, index, handling, initial, seeded) ==
  [hist |-> h, histPos |-> pos, historyIndexRef |-> index,
   isHandlingPopStateRef |-> handling, isInitialHistoryRef |-> initial,
   hasSeededHistoryRef |-> seeded]

\* a variant whose first run pushes no seed entry
HistorySyncEffectUnseeded(h, pos, index, handling, initial, seeded, vm, sc, ss) ==
  IF initial
  THEN LET currentState == h[pos]
           hasAppState == currentState.app = APP_HISTORY_KEY
           index0 == IF hasAppState THEN currentState.historyIndex ELSE 0
       IN HistoryRefs(ReplaceState(h, pos, buildHistoryState(vm, sc, ss, index0)),
                      pos, index0, handling, FALSE, TRUE)
  ELSE IF handling
  THEN HistoryRefs(ReplaceState(h, pos, buildHistoryState(vm, sc, ss, index)),
                   pos, index, FALSE, initial, seeded)
  ELSE HistoryRefs(PushState(h, pos, buildHistoryState(vm, sc, ss, index + 1)),
                   pos + 1, index + 1, handling, initial, seeded)

\* a variant whose push carries the index of the entry it leaves
HistorySyncEffectSameIndex(h, pos, index, handling, initial, seeded, vm, sc, ss) ==
  IF initial
  THEN LET currentState == h[pos]
           hasAppState == currentState.app = APP_HISTORY_KEY
           index0 == IF hasAppState THEN currentState.historyIndex ELSE 0
           h0 == ReplaceState(h, pos, buildHistoryState(vm, sc, ss, index0))
       IN IF ~seeded /\ (~hasAppState \/ index0 = 0)
          THEN HistoryRefs(PushState(h0, pos, buildHistoryState(vm, sc, ss, index0 + 1)),
                           pos + 1, index0 + 1, handling, FALSE, TRUE)
          ELSE HistoryRefs(h0, pos, index0, handling, FALSE, TRUE)
  ELSE IF handling
  THEN HistoryRefs(ReplaceState(h, pos, buildHistoryState(vm, sc, ss, index)),
                   pos, index, FALSE, initial, seeded)
  ELSE HistoryRefs(PushState(h, pos, buildHistoryState(vm, sc, ss, index)),
                   pos + 1, index, handling, initial, seeded)

\* the history sync effect, run with the view tuple (vm, sc, ss) of the
\* render that scheduled it
HistorySyncEffect(h, pos, index, handling, initial, seeded, vm, sc, ss) ==
  IF initial
  THEN LET currentState == h[pos]
           hasAppState == currentState.app = APP_HISTORY_KEY
           index0 == IF hasAppState THEN currentState.historyIndex ELSE 0
           h0 == ReplaceState(h, pos, buildHistoryState(vm, sc, ss, index0))
       IN IF ~seeded /\ (~hasAppState \/ index0 = 0)
          THEN HistoryRefs(PushState(h0, pos, buildHistoryState(vm, sc, ss, index0 + 1)),
                           pos + 1, index0 + 1, handling, FALSE, TRUE)
          ELSE HistoryRefs(h0, pos, index0, handling, FALSE, TRUE)
  ELSE IF handling
  THEN HistoryRefs(ReplaceState(h, pos, buildHistoryState(vm, sc, ss, index)),
                   pos, index, FALSE, initial, seeded)
  ELSE HistoryRefs(PushState(h, pos, buildHistoryState(vm, sc, ss, index + 1)),
                   pos + 1, index + 1, handling, initial, seeded)

\* The effect's dependencies are the view tuple: it runs after a render in
\* which the tuple differs from the one before, and not otherwise.
AfterRender(h, pos, index, handling, vm, sc, ss) ==
  IF <<vm, sc, ss>> # <<viewMode, selectedCategoryForView, selectedSubcategoryForView>>
  THEN HistorySyncEffect(h, pos, index, handling, isInitialHistoryRef,
                         hasSeededHistoryRef, vm, sc, ss)
  ELSE HistoryRefs(h, pos, index, handling, isInitialHistoryRef, hasSeededHistoryRef)

\* the view tuple becomes (vm, sc, ss); r is what AfterRender made of the history
SetView(vm, sc, ss, r) ==
  /\ viewMode' = vm
  /\ selectedCategoryForView' = sc
  /\ selectedSubcategoryForView' = ss
  /\ hist' = r.hist
  /\ histPos' = r.histPos
  /\ historyIndexRef' = r.historyIndexRef
  /\ isHandlingPopStateRef' = r.isHandlingPopStateRef
  /\ isInitialHistoryRef' = r.isInitialHistoryRef
  /\ hasSeededHistoryRef' = r.hasSeededHistoryRef

\* an in-app change of the view tuple
Navigate(vm, sc, ss) ==
  SetView(vm, sc, ss,
          AfterRender(hist, histPos, historyIndexRef, isHandlingPopStateRef, vm, sc, ss))

\* a variant that clears only the category for an admin entry
PopStateViewKeepingSubcategory(state) ==
  IF state.viewMode = "stock"
  THEN <<state.viewMode, state.selectedCategoryForView, state.selectedSubcategoryForView>>
  ELSE <<state.viewMode, Null, state.selectedSubcategoryForView>>

\* what handlePopState makes of the view tuple for a tagged entry
PopStateView(state) ==
  IF state.viewMode = "stock"
  THEN <<state.viewMode, state.selectedCategoryForView, state.selectedSubcategoryForView>>
  ELSE <<state.viewMode, Null, Null>>

\* a variant that does not set isHandlingPopStateRef
handlePopStateUnflagged(pos) ==
  LET state == hist[pos]
  IN IF state.app # APP_HISTORY_KEY
     THEN /\ histPos' = pos
          /\ UNCHANGED <<viewVars, hist, historyIndexRef, isHandlingPopStateRef,
                         isInitialHistoryRef, hasSeededHistoryRef>>
     ELSE LET v == PopStateView(state)
          IN SetView(v[1], v[2], v[3],
                     AfterRender(hist, pos, state.historyIndex, isHandlingPopStateRef,
                                 v[1], v[2], v[3]))

\* a variant that reads the fields of any entry, tagged or not
handlePopStateUnchecked(pos) ==
  LET state == hist[pos]
      v == PopStateView(state)
  IN SetView(v[1], v[2], v[3],
             AfterRender(hist, pos, state.historyIndex, TRUE, v[1], v[2], v[3]))

\* the browser has moved to entry pos of the session history and fires popstate
handlePopState(pos) ==
  LET state == hist[pos]
  IN IF state.app # APP_HISTORY_KEY
     THEN /\ histPos' = pos
          /\ UNCHANGED <<viewVars, hist, historyIndexRef, isHandlingPopStateRef,
                         isInitialHistoryRef, hasSeededHistoryRef>>
     ELSE LET v == PopStateView(state)
          IN SetView(v[1], v[2], v[3],
                     AfterRender(hist, pos, state.historyIndex, TRUE, v[1], v[2], v[3]))

----------------------------------------------------------------------------
(* The handler that ran last.                                              *)

NoItem ==
  [id |-> 0, name |-> Undefined, sku |-> Undefined, price |-> 0,
   category |-> Undefined, subcategory |-> Undefined, sizes |-> ZeroSizes]

\* op: the handler; cid, cname, sname, pid, size, item: its arguments (pid is
\* the key a save writes under); calls: the store write calls it issued;
\* paths: the paths of the write; ok: the store took the write
Op(op, cid, cname, sname, pid, size, item, calls, paths, ok) ==
  [op |-> op, cid |-> cid, cname |-> cname, sname |-> sname, pid |-> pid,
   size |-> size, item |-> item, calls |-> calls, paths |-> paths, ok |-> ok]

NoOp == Op("none", 0, Null, Null, 0, Null, NoItem, 0, 0, FALSE)

\* a variant that sends a refused write again until the store takes it
WriteRetried(u, ok) ==
  /\ storeCats' = ApplyCats(storeCats, u)
  /\ storeProds' = ApplyProds(storeProds, u)

\* the store takes the write u, or refuses it
Write(u, ok) ==
  IF ok
  THEN /\ storeCats' = ApplyCats(storeCats, u)
       /\ storeProds' = ApplyProds(storeProds, u)
  ELSE UNCHANGED <<storeCats, storeProds>>

----------------------------------------------------------------------------
(* Inputs.                                                                 *)

\* names an admin types into "Add New Category"
AddCategoryNames == {"Shoes", "uncategorized"}
\* names an admin types into "Add New Subcategory"
AddSubcategoryNames == {"Boots", "Default"}
\* category and subcategory names a saved item states
ItemCategoryNames == {"Shoes"}
ItemSubcategoryNames == {"Boots", "Default"}
\* the sizes a save puts stock on, and the sizes sold
StockedSizes == {"M"}
SoldSizes == {"M", "L"}
\* whether the store takes a write
Accepted == {TRUE}

SizesWith(q) == [s \in Sizes |-> IF s \in StockedSizes THEN q ELSE 0]

\* the categories and the items the client lists
ListedCategories == {k \in DOMAIN categories : CatExists(categories[k])}
ListedItems == {k \in DOMAIN items : ProdExists(items[k])}

Item(id, name, sku, price, category, subcategory, sizes) ==
  [id |-> id, name |-> name, sku |-> sku, price |-> price, category |-> category,
   subcategory |-> subcategory, sizes |-> sizes]

\* items handed to handleSaveItem: a new one (id 0) or one of the list
ItemsToSave ==
  {Item(id, "Runner", "SH-1", 50, c, sc, SizesWith(q)) :
     id \in {0} \cup ListedItems, c \in ItemCategoryNames,
     sc \in ItemSubcategoryNames, q \in 0..MaxQty}

----------------------------------------------------------------------------
(* Live collection sync.                                                   *)

\* a variant of the products effect that subscribes at once
ProductsSubscribedAlways(loaded) == TRUE

\* the products effect run with initialCategoriesLoaded = loaded: it returns
\* before onValue unless the categories have loaded
ProductsSubscribed(loaded) == loaded

\* the products effect after a categories callback: it runs again when
\* initialCategoriesLoaded has changed, and then attaches the listener
ProductsEffect ==
  itemsSubscribed' = IF initialCategoriesLoaded THEN itemsSubscribed
                     ELSE ProductsSubscribed(TRUE)

\* categories onValue callback
DeliverCategories ==
  /\ categoriesSubscribed
  /\ ~initialCategoriesLoaded \/ categories # CategoriesFromSnapshot(storeCats)
  /\ categories' = CategoriesFromSnapshot(storeCats)
  /\ initialCategoriesLoaded' = TRUE
  /\ ProductsEffect
  /\ lastOp' = Op("categoriesSnapshot", 0, Null, Null, 0, Null, NoItem, 0, 0, FALSE)
  /\ UNCHANGED <<storeVars, items, initialItemsLoaded, categoriesSubscribed,
                 modalVars, viewVars, histVars, navLog>>

\* products onValue callback
DeliverProducts ==
  /\ itemsSubscribed
  /\ ~initialItemsLoaded \/ items # ItemsFromSnapshot(storeProds)
  /\ items' = ItemsFromSnapshot(storeProds)
  /\ initialItemsLoaded' = TRUE
  /\ lastOp' = Op("productsSnapshot", 0, Null, Null, 0, Null, NoItem, 0, 0, FALSE)
  /\ UNCHANGED <<storeVars, categories, initialCategoriesLoaded,
                 categoriesSubscribed, itemsSubscribed, modalVars,
                 viewVars, histVars, navLog>>

\* categories onValue error callback: the store has cancelled the listener
CategoriesError ==
  /\ categoriesSubscribed
  /\ categoriesSubscribed' = FALSE
  /\ initialCategoriesLoaded' = TRUE
  /\ ProductsEffect
  /\ lastOp' = Op("categoriesError", 0, Null, Null, 0, Null, NoItem, 0, 0, FALSE)
  /\ UNCHANGED <<storeVars, categories, items, initialItemsLoaded,
                 modalVars, viewVars, histVars, navLog>>

\* a variant of the error callback that does not set the flag
ProductsErrorSilent ==
  /\ itemsSubscribed
  /\ itemsSubscribed' = FALSE
  /\ lastOp' = Op("productsError", 0, Null, Null, 0, Null, NoItem, 0, 0, FALSE)
  /\ UNCHANGED <<storeVars, categories, items, initialCategoriesLoaded,
                 initialItemsLoaded, categoriesSubscribed, modalVars, viewVars,
                 histVars, navLog>>

\* products onValue error callback: the store has cancelled the listener
ProductsError ==
  /\ itemsSubscribed
  /\ itemsSubscribed' = FALSE
  /\ initialItemsLoaded' = TRUE
  /\ lastOp' = Op("productsError", 0, Null, Null, 0, Null, NoItem, 0, 0, FALSE)
  /\ UNCHANGED <<storeVars, categories, items, initialCategoriesLoaded,
                 categoriesSubscribed, modalVars, viewVars, histVars, navLog>>

----------------------------------------------------------------------------
(* The item modal and the writes of its saves.                             *)

\* A save the form has sent and the store has not answered: saves holds
\* them in the order sent.  stage: "awaited" while the handleSubmit of the
\* rendered modal awaits it, "timedOut" once the timer has settled that wait,
\* "orphaned" once the modal it was submitted from is no longer rendered.
SentSave(itemToSave, key, u, stage) ==
  [item |-> itemToSave, key |-> key, u |-> u, stage |-> stage]

\* the modal has been unmounted: no rendered modal awaits a save
Orphaned(sent) == [i \in 1..Len(sent) |-> [sent[i] EXCEPT !.stage = "orphaned"]]

\* closeModal() with sent as the saves: the modal is unmounted, and its
\* processing flag with it
closeModalWith(sent) ==
  /\ isModalOpen' = FALSE
  /\ editingItem' = 0
  /\ isProcessing' = FALSE
  /\ saves' = Orphaned(sent)

closeModal == closeModalWith(saves)

\* The modal is rendered under viewMode === 'admin' && isModalOpen: a change
\* of the view mode unmounts it or mounts a fresh one, with isProcessing false.
ModalAfterRender ==
  /\ UNCHANGED <<isModalOpen, editingItem>>
  /\ isProcessing' = IF viewMode' # viewMode THEN FALSE ELSE isProcessing
  /\ saves' = IF viewMode' # viewMode THEN Orphaned(saves) ELSE saves

----------------------------------------------------------------------------
(* Engine operations.  op names the handler in lastOp.                     *)

\* a variant of handleSaveItem that closes the modal whatever the store answers
SaveStepClosing(op, itemToSave, ok) ==
  LET needsCatKey == SaveNeedsCatKey(categories, itemToSave)
      needsProdKey == itemToSave.id = 0
      key == IF needsProdKey THEN nextProdKey ELSE itemToSave.id
  IN /\ needsCatKey => nextCatKey <= MaxCatKeys
     /\ needsProdKey => nextProdKey <= MaxProdKeys
     /\ IF SaveItemThrows(categories, itemToSave)
        THEN /\ lastOp' = Op(op, 0, itemToSave.category, itemToSave.subcategory,
                             key, Null, itemToSave, 0, 0, FALSE)
             /\ UNCHANGED <<storeVars, modalVars>>
        ELSE LET u == SaveItemUpdates(categories, itemToSave, nextCatKey, nextProdKey)
                 calls == IF PathCount(u) > 0 THEN 1 ELSE 0
             IN /\ Write(u, ok /\ calls = 1)
                /\ nextCatKey' = IF ok /\ needsCatKey THEN nextCatKey + 1 ELSE nextCatKey
                /\ nextProdKey' = IF ok /\ needsProdKey THEN nextProdKey + 1 ELSE nextProdKey
                /\ closeModal
                /\ lastOp' = Op(op, 0, itemToSave.category, itemToSave.subcategory,
                                key, Null, itemToSave, calls, PathCount(u), ok)
     /\ UNCHANGED <<syncVars, viewVars, histVars, navLog>>

\* handleSaveItem(itemToSave); ok: the store takes the write
SaveStep(op, itemToSave, ok) ==
  LET needsCatKey == SaveNeedsCatKey(categories, itemToSave)
      needsProdKey == itemToSave.id = 0
      key == IF needsProdKey THEN nextProdKey ELSE itemToSave.id
  IN /\ needsCatKey => nextCatKey <= MaxCatKeys
     /\ needsProdKey => nextProdKey <= MaxProdKeys
     /\ IF SaveItemThrows(categories, itemToSave)
        THEN /\ lastOp' = Op(op, 0, itemToSave.category, itemToSave.subcategory,
                             key, Null, itemToSave, 0, 0, FALSE)
             /\ UNCHANGED <<storeVars, modalVars>>
        ELSE LET u == SaveItemUpdates(categories, itemToSave, nextCatKey, nextProdKey)
                 calls == IF PathCount(u) > 0 THEN 1 ELSE 0
             IN /\ Write(u, ok /\ calls = 1)
                /\ nextCatKey' = IF ok /\ needsCatKey THEN nextCatKey + 1 ELSE nextCatKey
                /\ nextProdKey' = IF ok /\ needsProdKey THEN nextProdKey + 1 ELSE nextProdKey
                /\ IF ok
                   THEN closeModal
                   ELSE UNCHANGED modalVars
                /\ lastOp' = Op(op, 0, itemToSave.category, itemToSave.subcategory,
                                key, Null, itemToSave, calls, PathCount(u), ok)
     /\ UNCHANGED <<syncVars, viewVars, histVars, navLog>>

HandleSaveItem(itemToSave, ok) == SaveStep("save", itemToSave, ok)

\* handleDeleteItem(itemId), the confirm dialog accepted
HandleDeleteItem(itemId, ok) ==
  /\ itemId # 0
  /\ Write(DeleteItemUpdates(itemId), ok)
  /\ lastOp' = Op("deleteItem", 0, Null, Null, itemId, Null, NoItem, 1, 1, ok)
  /\ UNCHANGED <<nextCatKey, nextProdKey, syncVars, modalVars, viewVars, histVars, navLog>>

\* handleSellItemSize(itemId, sizeToSell)
HandleSellItemSize(itemId, sizeToSell, ok) ==
  /\ IF SellWrites(items, itemId, sizeToSell)
     THEN /\ Write(SellUpdates(items, itemId, sizeToSell), ok)
          /\ lastOp' = Op("sell", 0, Null, Null, itemId, sizeToSell, NoItem, 1, 1, ok)
     ELSE /\ UNCHANGED <<storeCats, storeProds>>
          /\ lastOp' = Op("sell", 0, Null, Null, itemId, sizeToSell, NoItem, 0, 0, FALSE)
  /\ UNCHANGED <<nextCatKey, nextProdKey, syncVars, modalVars, viewVars, histVars, navLog>>

\* handleAddCategory(categoryName)
HandleAddCategory(categoryName, ok) ==
  /\ nextCatKey <= MaxCatKeys
  /\ IF FindIgnoreCaseThrows(categories, categoryName)
        \/ AddCategoryRejected(categories, categoryName)
     THEN /\ UNCHANGED storeVars
          /\ lastOp' = Op("addCategory", 0, categoryName, Null, 0, Null, NoItem, 0, 0, FALSE)
     ELSE /\ Write(AddCategoryUpdates(categoryName, nextCatKey), ok)
          /\ nextCatKey' = IF ok THEN nextCatKey + 1 ELSE nextCatKey
          /\ UNCHANGED nextProdKey
          /\ lastOp' = Op("addCategory", nextCatKey, categoryName, Null, 0, Null,
                          NoItem, 1, 1, ok)
  /\ UNCHANGED <<syncVars, modalVars, viewVars, histVars, navLog>>

\* handleDeleteCategory(categoryId, categoryName)
HandleDeleteCategory(categoryId, categoryName, ok) ==
  IF DeleteCategoryRejected(categoryId, categoryName) \/ DeleteCategoryThrows(categories)
  THEN /\ lastOp' = Op("deleteCategory", categoryId, categoryName, Null, 0, Null,
                       NoItem, 0, 0, FALSE)
       /\ UNCHANGED <<storeVars, syncVars, modalVars, viewVars, histVars, navLog>>
  ELSE LET needsCatKey == DeleteNeedsCatKey(categories)
           u == DeleteCategoryUpdates(categories, items, categoryId, categoryName, nextCatKey)
       IN /\ needsCatKey => nextCatKey <= MaxCatKeys
          /\ Write(u, ok)
          /\ nextCatKey' = IF ok /\ needsCatKey THEN nextCatKey + 1 ELSE nextCatKey
          /\ UNCHANGED nextProdKey
          /\ IF ok /\ selectedCategoryForView = categoryName
             THEN Navigate(viewMode, Null, Null)
             ELSE UNCHANGED <<viewVars, histVars>>
          /\ lastOp' = Op("deleteCategory", categoryId, categoryName, Null, 0, Null,
                          NoItem, 1, PathCount(u), ok)
          /\ UNCHANGED <<syncVars, modalVars, navLog>>

\* category.subcategories.find(..) on an entry without a list
AddSubcategoryThrows(cats, categoryId, categoryName) ==
  /\ categoryId # 0
  /\ categoryName # Uncategorized
  /\ CatExists(cats[categoryId])
  /\ cats[categoryId].subcategories = <<>>

\* handleAddSubcategory(categoryId, categoryName, subcategoryName)
HandleAddSubcategory(categoryId, categoryName, subcategoryName, ok) ==
  /\ IF \/ AddSubcategoryThrows(categories, categoryId, categoryName)
        \/ AddSubcategoryRejected(categories, categoryId, categoryName, subcategoryName)
     THEN /\ UNCHANGED <<storeCats, storeProds>>
          /\ lastOp' = Op("addSubcategory", categoryId, categoryName, subcategoryName,
                          0, Null, NoItem, 0, 0, FALSE)
     ELSE /\ Write(AddSubcategoryUpdates(categories, categoryId, subcategoryName), ok)
          /\ lastOp' = Op("addSubcategory", categoryId, categoryName, subcategoryName,
                          0, Null, NoItem, 1, 1, ok)
  /\ UNCHANGED <<nextCatKey, nextProdKey, syncVars, modalVars, viewVars, histVars, navLog>>

\* handleDeleteSubcategory(categoryId, categoryName, subcategoryName)
HandleDeleteSubcategory(categoryId, categoryName, subcategoryName, ok) ==
  IF DeleteSubcategoryRejected(categories, categoryId, categoryName, subcategoryName)
  THEN /\ lastOp' = Op("deleteSubcategory", categoryId, categoryName, subcategoryName,
                       0, Null, NoItem, 0, 0, FALSE)
       /\ UNCHANGED <<storeVars, syncVars, modalVars, viewVars, histVars, navLog>>
  ELSE LET u == DeleteSubcategoryUpdates(categories, items, categoryId, categoryName,
                                         subcategoryName)
       IN /\ Write(u, ok)
          /\ IF /\ ok
                /\ selectedCategoryForView = categoryName
                /\ selectedSubcategoryForView = subcategoryName
             THEN Navigate(viewMode, selectedCategoryForView, Null)
             ELSE UNCHANGED <<viewVars, histVars>>
          /\ lastOp' = Op("deleteSubcategory", categoryId, categoryName, subcategoryName,
                          0, Null, NoItem, 1, PathCount(u), ok)
          /\ UNCHANGED <<nextCatKey, nextProdKey, syncVars, modalVars, navLog>>

----------------------------------------------------------------------------
(* ItemModal: the add / edit form.                                         *)

\* String.prototype.trim on the texts the model types into the form
Trim(s) ==
  CASE s = " "        -> ""
    [] s = ""         -> ""
    [] s = " Runner " -> "Runner"
    [] OTHER          -> s

FormData(name, sku, category, subcategory, sizes, price) ==
  [name |-> name, sku |-> sku, category |-> category, subcategory |-> subcategory,
   sizes |-> sizes, price |-> price]

\* catDef.subcategories.includes(..) on an entry without a list
ValidateThrows(cats, formData) ==
  LET catDef == FindCatByName(cats, formData.category)
  IN /\ formData.category # ""
     /\ catDef # 0
     /\ formData.subcategory # ""
     /\ cats[catDef].subcategories = <<>>

\* a variant that does not look at the quantities
validateWithoutSizes(cats, formData) ==
  LET catDef == FindCatByName(cats, formData.category)
  IN /\ Trim(formData.name) # ""
     /\ Trim(formData.sku) # ""
     /\ formData.category # ""
     /\ catDef # 0
     /\ formData.subcategory # ""
     /\ Includes(cats[catDef].subcategories, formData.subcategory)
     /\ ~(formData.price < 0)

\* a variant that does not look at the category and the subcategory
validateWithoutCategory(cats, formData) ==
  /\ Trim(formData.name) # ""
  /\ Trim(formData.sku) # ""
  /\ ~(formData.price < 0)
  /\ \A size \in Sizes : ~(formData.sizes[size] < 0)

\* validate(): no error was recorded.  Quantities and the price are numbers
\* (parseInt(value) || 0, parseFloat(value) || 0), so the isNaN arms are not
\* taken.
validate(cats, formData) ==
  LET catDef == FindCatByName(cats, formData.category)
  IN /\ Trim(formData.name) # ""
     /\ Trim(formData.sku) # ""
     /\ formData.category # ""
     /\ catDef # 0
     /\ formData.subcategory # ""
     /\ Includes(cats[catDef].subcategories, formData.subcategory)
     /\ ~(formData.price < 0)
     /\ \A size \in Sizes : ~(formData.sizes[size] < 0)

\* itemDataForSave of handleSubmit
ItemDataForSave(formData, editingItemId) ==
  Item(editingItemId, Trim(formData.name), Trim(formData.sku), formData.price,
       formData.category, formData.subcategory, formData.sizes)

\* what a user can have put in the form when submitting it
FormNames == {"Runner", " "}
FormCategoryNames == {"Shoes", ""}
FormSubcategoryNames == {"Default", "Sandals"}
FormQuantities == (0 - 1)..MaxQty

\* forms with one fault each: a blank SKU, a negative price, a category the
\* client does not list
FaultyForms ==
  {FormData("Runner", " ", "Shoes", "Default", SizesWith(1), 50),
   FormData("Runner", "SH-1", "Shoes", "Default", SizesWith(1), 0 - 1),
   FormData("Runner", "SH-1", "Hats", "Default", SizesWith(1), 50)}

FormInputs ==
  {FormData("Runner", "SH-1", "Shoes", sc, SizesWith(q), 50) :
     sc \in FormSubcategoryNames, q \in FormQuantities}
  \cup {FormData(n, "SH-1", c, "Default", SizesWith(1), 50) :
          n \in FormNames, c \in FormCategoryNames}
  \cup FaultyForms

\* a variant of the finally block that leaves the flag as it is
FinallyKeeping(processing) == processing

\* the finally block of handleSubmit: setIsProcessing(false)
Finally(processing) == FALSE

\* handleSubmit up to its await: validate(), setIsProcessing(true), and
\* handleSaveItem up to its await of update()
SubmitStart(formData) ==
  /\ viewMode = "admin"
  /\ isModalOpen
  /\ ~isProcessing
  /\ IF ValidateThrows(categories, formData) \/ ~validate(categories, formData)
     THEN /\ lastOp' = Op("submit", 0, Null, Null, editingItem, Null,
                          ItemDataForSave(formData, editingItem), 0, 0, FALSE)
          /\ UNCHANGED <<storeVars, modalVars>>
     ELSE LET itemToSave == ItemDataForSave(formData, editingItem)
              needsCatKey == SaveNeedsCatKey(categories, itemToSave)
              needsProdKey == itemToSave.id = 0
              key == IF needsProdKey THEN nextProdKey ELSE itemToSave.id
          IN /\ Len(saves) < MaxSaves
             /\ needsCatKey => nextCatKey <= MaxCatKeys
             /\ needsProdKey => nextProdKey <= MaxProdKeys
             /\ IF SaveItemThrows(categories, itemToSave)
                THEN /\ lastOp' = Op("send", 0, itemToSave.category,
                                     itemToSave.subcategory, key, Null, itemToSave,
                                     0, 0, FALSE)
                     /\ UNCHANGED <<storeVars, modalVars>>
                ELSE LET u == SaveItemUpdates(categories, itemToSave, nextCatKey,
                                              nextProdKey)
                     IN /\ saves' = Append(saves, SentSave(itemToSave, key, u, "awaited"))
                        /\ isProcessing' = TRUE
                        /\ nextCatKey' = IF needsCatKey THEN nextCatKey + 1
                                         ELSE nextCatKey
                        /\ nextProdKey' = IF needsProdKey THEN nextProdKey + 1
                                          ELSE nextProdKey
                        /\ lastOp' = Op("send", 0, itemToSave.category,
                                        itemToSave.subcategory, key, Null, itemToSave,
                                        1, PathCount(u), FALSE)
                        /\ UNCHANGED <<storeCats, storeProds, isModalOpen, editingItem>>
  /\ UNCHANGED <<syncVars, viewVars, histVars, navLog>>

\* the name lastOp gives the answer to a save: late when the handleSubmit
\* that sent it no longer awaits it
AppliedAs(save) == IF save.stage = "awaited" THEN "saveApplied" ELSE "saveAppliedLate"
RefusedAs(save) == IF save.stage = "awaited" THEN "saveRefused" ELSE "saveRefusedLate"

\* update() resolves, for the save sent first (the store answers the writes
\* of a client in the order sent): the store has taken the write,
\* handleSaveItem goes on to closeModal(), and a handleSubmit still awaiting
\* it to its finally block
SaveApplied ==
  /\ saves # <<>>
  /\ Write(Head(saves).u, TRUE)
  /\ closeModalWith(Tail(saves))
  /\ lastOp' = Op(AppliedAs(Head(saves)), 0, Head(saves).item.category,
                  Head(saves).item.subcategory, Head(saves).key, Null,
                  Head(saves).item, 0, PathCount(Head(saves).u), TRUE)
  /\ UNCHANGED <<nextCatKey, nextProdKey, syncVars, viewVars, histVars, navLog>>

\* update() rejects, for the save sent first: handleSaveItem alerts and
\* rethrows, and a handleSubmit still awaiting it goes through its catch to
\* its finally block
SaveRefused ==
  /\ saves # <<>>
  /\ saves' = Tail(saves)
  /\ isProcessing' = IF Head(saves).stage = "awaited" THEN Finally(isProcessing)
                     ELSE isProcessing
  /\ lastOp' = Op(RefusedAs(Head(saves)), 0, Head(saves).item.category,
                  Head(saves).item.subcategory, Head(saves).key, Null,
                  Head(saves).item, 0, PathCount(Head(saves).u), FALSE)
  /\ UNCHANGED <<storeVars, syncVars, isModalOpen, editingItem, viewVars,
                 histVars, navLog>>

\* the timer of timeoutPromise fires while handleSubmit awaits the race: the
\* race rejects, handleSubmit alerts and runs its finally block; nothing
\* reaches the update() the save awaits
SaveTimeout ==
  \E i \in 1..Len(saves) :
    /\ saves[i].stage = "awaited"
    /\ saves' = [saves EXCEPT ![i].stage = "timedOut"]
    /\ isProcessing' = Finally(isProcessing)
    /\ lastOp' = Op("saveTimeout", 0, saves[i].item.category,
                    saves[i].item.subcategory, saves[i].key, Null, saves[i].item,
                    0, 0, FALSE)
    /\ UNCHANGED <<storeVars, syncVars, isModalOpen, editingItem, viewVars,
                   histVars, navLog>>

\* openModal(item): "Add New Item" (0) or "Edit" on a listed item; both
\* buttons are in the admin view
OpenModal(item) ==
  /\ viewMode = "admin"
  /\ ~isModalOpen
  /\ isModalOpen' = TRUE
  /\ editingItem' = item
  /\ isProcessing' = FALSE
  /\ UNCHANGED saves
  /\ lastOp' = Op("openModal", 0, Null, Null, item, Null, NoItem, 0, 0, FALSE)
  /\ UNCHANGED <<storeVars, syncVars, viewVars, histVars, navLog>>

\* closeModal from the modal's close and cancel buttons or the Escape key,
\* all of them disabled while isProcessing
CloseModal ==
  /\ isModalOpen
  /\ ~isProcessing
  /\ closeModal
  /\ lastOp' = Op("closeModal", 0, Null, Null, 0, Null, NoItem, 0, 0, FALSE)
  /\ UNCHANGED <<storeVars, syncVars, viewVars, histVars, navLog>>

\* handleSubmit of the rendered modal with formData in the form
HandleSubmit(formData, ok) ==
  /\ viewMode = "admin"
  /\ isModalOpen
  /\ ~isProcessing
  /\ IF ValidateThrows(categories, formData) \/ ~validate(categories, formData)
     THEN /\ lastOp' = Op("submit", 0, Null, Null, editingItem, Null,
                          ItemDataForSave(formData, editingItem), 0, 0, FALSE)
          /\ UNCHANGED <<storeVars, syncVars, modalVars, viewVars, histVars, navLog>>
     ELSE SaveStep("submit", ItemDataForSave(formData, editingItem), ok)

----------------------------------------------------------------------------
(* View selection and the browser's back and forward.                      *)

View == <<viewMode, selectedCategoryForView, selectedSubcategoryForView>>

Event(ev, view) == [ev |-> ev, view |-> view]

\* getCategoryItemCount
getCategoryItemCount(categoryName, subcategoryName) ==
  Cardinality(ItemsInSubcategory(items, categoryName, subcategoryName))

\* the category cards of the stock view
CategoryCards ==
  {k \in ListedCategories :
     LET category == categories[k]
         totalItemsInCategory ==
           Cardinality({i \in ListedItems :
                          /\ items[i].category = category.name
                          /\ Includes(category.subcategories, items[i].subcategory)})
     IN ~(/\ category.name = Uncategorized
          /\ totalItemsInCategory = 0
          /\ category.subcategories # <<Default>>)}

\* the subcategory cards of the selected category
SubcategoryCards ==
  LET k == FindCatByName(categories, selectedCategoryForView)
  IN IF k = 0 THEN {}
     ELSE LET category == categories[k]
              subs == {category.subcategories[i] : i \in 1..Len(category.subcategories)}
          IN {subcategory \in subs :
                /\ getCategoryItemCount(category.name, subcategory) > 0
                   \/ subcategory = Default
                /\ ~(/\ category.name = Uncategorized
                     /\ subcategory = Default
                     /\ getCategoryItemCount(category.name, subcategory) = 0
                     /\ Len(category.subcategories) > 1
                     /\ \E s \in subs \ {Default} :
                          getCategoryItemCount(category.name, s) > 0)}

\* the app shows its views once both collections have loaded
Loaded == initialCategoriesLoaded /\ initialItemsLoaded

\* an in-app navigation to the view tuple (vm, sc, ss)
NavigateTo(op, vm, sc, ss) ==
  /\ Navigate(vm, sc, ss)
  /\ navLog' = Append(navLog, Event("nav", <<vm, sc, ss>>))
  /\ lastOp' = Op(op, 0, sc, ss, 0, Null, NoItem, 0, 0, FALSE)
  /\ ModalAfterRender
  /\ UNCHANGED <<storeVars, syncVars>>

\* handleSelectCategoryForView, from a category card
SelectCategory ==
  /\ Loaded
  /\ Len(navLog) < MaxEvents
  /\ viewMode = "stock"
  /\ selectedCategoryForView = Null
  /\ \E k \in CategoryCards :
       NavigateTo("selectCategory", viewMode, categories[k].name, Null)

\* handleSelectSubcategoryForView, from a subcategory card
SelectSubcategory ==
  /\ Loaded
  /\ Len(navLog) < MaxEvents
  /\ viewMode = "stock"
  /\ selectedCategoryForView # Null
  /\ selectedSubcategoryForView = Null
  /\ \E subcategory \in SubcategoryCards :
       NavigateTo("selectSubcategory", viewMode, selectedCategoryForView, subcategory)

\* toggleViewMode
ToggleViewMode ==
  /\ Loaded
  /\ Len(navLog) < MaxEvents
  /\ IF viewMode = "admin"
     THEN NavigateTo("toggleViewMode", "stock", Null, Null)
     ELSE NavigateTo("toggleViewMode", "admin", selectedCategoryForView,
                     selectedSubcategoryForView)

\* the browser goes to entry pos of the session history and fires popstate
Traverse(ev, pos) ==
  /\ handlePopState(pos)
  /\ navLog' = Append(navLog, Event(ev, View'))
  /\ lastOp' = Op(ev, 0, Null, Null, 0, Null, NoItem, 0, 0, FALSE)
  /\ ModalAfterRender
  /\ UNCHANGED <<storeVars, syncVars>>

\* the browser's back button
NativeBack ==
  /\ Len(navLog) < MaxEvents
  /\ histPos > 1
  /\ Traverse("back", histPos - 1)

\* the browser's forward button
NativeForward ==
  /\ Len(navLog) < MaxEvents
  /\ histPos < Len(hist)
  /\ Traverse("forward", histPos + 1)

\* handleNavigateBackFromStockView, from the back button of the subcategory
\* cards and of the item list; window.history.back() is taken together with
\* the popstate it leads to
NavigateBack ==
  /\ Loaded
  /\ Len(navLog) < MaxEvents
  /\ viewMode = "stock"
  /\ selectedCategoryForView # Null
  /\ IF historyIndexRef > 0
     THEN /\ histPos > 1
          /\ Traverse("navigateBack", histPos - 1)
     ELSE IF selectedSubcategoryForView # Null
          THEN NavigateTo("navigateBack", viewMode, selectedCategoryForView, Null)
          ELSE NavigateTo("navigateBack", viewMode, Null, Null)

\* handleLogout, signOut resolved.  Who is signed in is not part of the
\* model: the admin's buttons stay enabled.
Logout ==
  /\ Loaded
  /\ Len(navLog) < MaxEvents
  /\ Navigate("stock", Null, Null)
  /\ closeModal
  /\ navLog' = Append(navLog, Event("logout", <<"stock", Null, Null>>))
  /\ lastOp' = Op("logout", 0, Null, Null, 0, Null, NoItem, 0, 0, FALSE)
  /\ UNCHANGED <<storeVars, syncVars>>

\* the user follows a link to a fragment of the page: the browser pushes an
\* entry without state; the popstate it may fire carries no state, and
\* handlePopState returns on it
FragmentNavigation ==
  /\ Len(navLog) < MaxEvents
  /\ hist' = PushState(hist, histPos, UntaggedEntry)
  /\ histPos' = histPos + 1
  /\ navLog' = Append(navLog, Event("fragment", View))
  /\ lastOp' = Op("fragment", 0, Null, Null, 0, Null, NoItem, 0, 0, FALSE)
  /\ UNCHANGED <<storeVars, syncVars, modalVars, viewVars, historyIndexRef,
                 isHandlingPopStateRef, isInitialHistoryRef, hasSeededHistoryRef>>

\* another writer removes a category from the store and leaves the products
\* alone; this client hears of it through its categories listener
RemoteRemoveCategory ==
  \E k \in {c \in CatIds : CatExists(storeCats[c])} :
    /\ storeCats' = [storeCats EXCEPT ![k] = NoCat]
    /\ lastOp' = Op("remoteRemoveCategory", k, storeCats[k].name, Null, 0, Null,
                    NoItem, 0, 0, FALSE)
    /\ UNCHANGED <<storeProds, nextCatKey, nextProdKey, syncVars, modalVars,
                   viewVars, histVars, navLog>>

\* handleSellItemSize in another client, whose item list is the store's
\* products: the store gets that client's write, and this client hears of
\* it through its products listener
RemoteSell ==
  \E itemId \in {k \in ProdIds : ProdExists(storeProds[k])}, sizeToSell \in SoldSizes :
    /\ SellWrites(ItemsFromSnapshot(storeProds), itemId, sizeToSell)
    /\ Write(SellUpdates(ItemsFromSnapshot(storeProds), itemId, sizeToSell), TRUE)
    /\ lastOp' = Op("remoteSell", 0, Null, Null, itemId, sizeToSell, NoItem, 1, 1, TRUE)
    /\ UNCHANGED <<nextCatKey, nextProdKey, syncVars, modalVars, viewVars, histVars,
                   navLog>>

\* handleDeleteItem in another client
RemoteRemoveProduct ==
  \E itemId \in {k \in ProdIds : ProdExists(storeProds[k])} :
    /\ Write(DeleteItemUpdates(itemId), TRUE)
    /\ lastOp' = Op("remoteDeleteItem", 0, Null, Null, itemId, Null, NoItem, 1, 1, TRUE)
    /\ UNCHANGED <<nextCatKey, nextProdKey, syncVars, modalVars, viewVars, histVars,
                   navLog>>

----------------------------------------------------------------------------
(* The operations with their inputs.                                       *)

SaveItem == \E itemToSave \in ItemsToSave, ok \in Accepted : HandleSaveItem(itemToSave, ok)

DeleteItem == \E itemId \in ListedItems, ok \in Accepted : HandleDeleteItem(itemId, ok)

SellItemSize ==
  \E itemId \in ProdIds, sizeToSell \in SoldSizes, ok \in Accepted :
    HandleSellItemSize(itemId, sizeToSell, ok)

AddCategory ==
  \E categoryName \in AddCategoryNames, ok \in Accepted : HandleAddCategory(categoryName, ok)

\* the buttons of AdminCategoryManager pass the listed entry's id and name
DeleteCategory ==
  \E categoryId \in ListedCategories, ok \in Accepted :
    HandleDeleteCategory(categoryId, categories[categoryId].name, ok)

AddSubcategory ==
  \E categoryId \in ListedCategories, subcategoryName \in AddSubcategoryNames,
     ok \in Accepted :
    HandleAddSubcategory(categoryId, categories[categoryId].name, subcategoryName, ok)

DeleteSubcategory ==
  \E categoryId \in ListedCategories, ok \in Accepted :
    \E i \in 1..Len(categories[categoryId].subcategories) :
      HandleDeleteSubcategory(categoryId, categories[categoryId].name,
                              categories[categoryId].subcategories[i], ok)

Open == \E item \in {0} \cup ListedItems : OpenModal(item)

Submit == \E formData \in FormInputs, ok \in Accepted : HandleSubmit(formData, ok)

\* a handler of App whose write the store refuses
RefusedOperation ==
  \/ \E itemToSave \in ItemsToSave : HandleSaveItem(itemToSave, FALSE)
  \/ \E itemId \in ListedItems : HandleDeleteItem(itemId, FALSE)
  \/ \E itemId \in ListedItems, sizeToSell \in SoldSizes :
       HandleSellItemSize(itemId, sizeToSell, FALSE)
  \/ \E categoryName \in AddCategoryNames : HandleAddCategory(categoryName, FALSE)
  \/ \E categoryId \in ListedCategories :
       HandleDeleteCategory(categoryId, categories[categoryId].name, FALSE)
  \/ \E categoryId \in ListedCategories, subcategoryName \in AddSubcategoryNames :
       HandleAddSubcategory(categoryId, categories[categoryId].name, subcategoryName,
                            FALSE)
  \/ \E categoryId \in ListedCategories :
       \E i \in 1..Len(categories[categoryId].subcategories) :
         HandleDeleteSubcategory(categoryId, categories[categoryId].name,
                                 categories[categoryId].subcategories[i], FALSE)

SubmitForm == \E formData \in FormInputs : SubmitStart(formData)

\* an engine operation whose write the store refuses
RefusedWrite ==
  \/ RefusedOperation
  \/ \E formData \in FormInputs : HandleSubmit(formData, FALSE)

----------------------------------------------------------------------------
(* Initial states.                                                         *)

EmptyCats == [k \in CatIds |-> NoCat]
EmptyProds == [k \in ProdIds |-> NoProd]

\* a store an earlier session left: one category, and one product in it
SeededCats ==
  [k \in CatIds |->
     IF k = 1 THEN [name |-> "Shoes", subcategories |-> <<"Boots", "Default">>]
     ELSE NoCat]
SeededProds ==
  [k \in ProdIds |->
     IF k = 1 THEN FullProd("Runner", "SH-1", 50, "Shoes", "Boots", SizesWith(1))
     ELSE NoProd]

\* the history after the first run of the history sync effect, on a page
\* whose entry carries no state
Mounted ==
  HistorySyncEffect(<<UntaggedEntry>>, 1, 0, FALSE, TRUE, FALSE, "stock", Null, Null)

\* the history after the first run of the history sync effect on a page
\* loaded at entry pos of the session history h
MountOn(h, pos) ==
  HistorySyncEffect(h, pos, 0, FALSE, TRUE, FALSE, "stock", Null, Null)

\* session histories a page load can find: a fresh tab; a reload on the
\* landing entry an earlier load left, with a selection pushed ahead of it;
\* a reload on an entry of index 1 that stands alone
LandingHistories ==
  {<<<<UntaggedEntry>>, 1>>,
   <<<<buildHistoryState("stock", Null, Null, 0),
       buildHistoryState("stock", "Shoes", Null, 1)>>, 1>>,
   <<<<buildHistoryState("stock", "Shoes", Null, 1)>>, 1>>}

\* the history after the first toggleViewMode on the mounted app
InAdminView ==
  HistorySyncEffect(Mounted.hist, Mounted.histPos, Mounted.historyIndexRef,
                    Mounted.isHandlingPopStateRef, Mounted.isInitialHistoryRef,
                    Mounted.hasSeededHistoryRef, "admin", Null, Null)

InitView(vm, r) ==
  /\ viewMode = vm
  /\ selectedCategoryForView = Null
  /\ selectedSubcategoryForView = Null
  /\ hist = r.hist
  /\ histPos = r.histPos
  /\ historyIndexRef = r.historyIndexRef
  /\ isHandlingPopStateRef = r.isHandlingPopStateRef
  /\ isInitialHistoryRef = r.isInitialHistoryRef
  /\ hasSeededHistoryRef = r.hasSeededHistoryRef
  /\ isModalOpen = FALSE
  /\ editingItem = 0
  /\ isProcessing = FALSE
  /\ saves = <<>>
  /\ navLog = <<>>
  /\ lastOp = NoOp

\* the app has mounted on an empty store; no snapshot has arrived
Init ==
  /\ storeCats = EmptyCats
  /\ storeProds = EmptyProds
  /\ nextCatKey = 1
  /\ nextProdKey = 1
  /\ categories = EmptyCats
  /\ items = EmptyProds
  /\ initialCategoriesLoaded = FALSE
  /\ initialItemsLoaded = FALSE
  /\ categoriesSubscribed = TRUE
  /\ itemsSubscribed = ProductsSubscribed(initialCategoriesLoaded)
  /\ InitView("stock", Mounted)

\* the client's lists are the store's collections
Current ==
  /\ Loaded
  /\ categories = CategoriesFromSnapshot(storeCats)
  /\ items = ItemsFromSnapshot(storeProds)

\* every handler runs on lists that are up to date
Next ==
  \/ DeliverCategories
  \/ DeliverProducts
  \/ Current /\ SaveItem
  \/ Current /\ DeleteItem
  \/ Current /\ SellItemSize
  \/ Current /\ AddCategory
  \/ Current /\ DeleteCategory
  \/ Current /\ AddSubcategory
  \/ Current /\ DeleteSubcategory

Spec == Init /\ [][Next]_vars

\* saves and category operations run on whatever lists the client holds
NextStale ==
  \/ DeliverCategories
  \/ DeliverProducts
  \/ Loaded /\ SaveItem
  \/ Loaded /\ AddCategory
  \/ Loaded /\ DeleteCategory

SpecStale == Init /\ [][NextStale]_vars

\* the app has mounted on a store holding one category, loaded both
\* collections, and the admin view has been opened
InitStock ==
  /\ storeCats = SeededCats
  /\ storeProds = EmptyProds
  /\ nextCatKey = 2
  /\ nextProdKey = 1
  /\ categories = CategoriesFromSnapshot(SeededCats)
  /\ items = ItemsFromSnapshot(EmptyProds)
  /\ initialCategoriesLoaded = TRUE
  /\ initialItemsLoaded = TRUE
  /\ categoriesSubscribed = TRUE
  /\ itemsSubscribed = ProductsSubscribed(initialCategoriesLoaded)
  /\ InitView("admin", InAdminView)

\* stock changes: form saves, sells and deletes on whatever list the client
\* holds, and product snapshots
NextStock ==
  \/ DeliverProducts
  \/ Open
  \/ CloseModal
  \/ Submit
  \/ SellItemSize
  \/ DeleteItem

SpecStock == InitStock /\ [][NextStock]_vars

\* the app has mounted on a store holding one category and one product
InitHistory ==
  /\ storeCats = SeededCats
  /\ storeProds = SeededProds
  /\ nextCatKey = 2
  /\ nextProdKey = 2
  /\ categories = EmptyCats
  /\ items = EmptyProds
  /\ initialCategoriesLoaded = FALSE
  /\ initialItemsLoaded = FALSE
  /\ categoriesSubscribed = TRUE
  /\ itemsSubscribed = ProductsSubscribed(initialCategoriesLoaded)
  /\ InitView("stock", Mounted)

NextHistory ==
  \/ DeliverCategories
  \/ DeliverProducts
  \/ SelectCategory
  \/ SelectSubcategory
  \/ ToggleViewMode
  \/ NativeBack
  \/ NativeForward

SpecHistory == InitHistory /\ [][NextHistory]_vars

\* saves on up-to-date lists, watched through the two subscriptions
NextSave ==
  \/ DeliverCategories
  \/ DeliverProducts
  \/ Current /\ SaveItem
  \/ Current /\ AddCategory

SpecSave == Init /\ [][NextSave]_vars

\* loading: either listener's first event is a snapshot or an error
NextLoading ==
  \/ DeliverCategories
  \/ DeliverProducts
  \/ CategoriesError
  \/ ProductsError
  \/ SelectCategory
  \/ SelectSubcategory
  \/ ToggleViewMode
  \/ NativeBack
  \/ NativeForward

\* the store answers each attached listener: a listener that has had no
\* event yet eventually gets a snapshot or an error
FirstCategoriesEvent == ~initialCategoriesLoaded /\ (DeliverCategories \/ CategoriesError)
FirstProductsEvent == ~initialItemsLoaded /\ (DeliverProducts \/ ProductsError)

SpecLoading ==
  /\ InitHistory
  /\ [][NextLoading]_vars
  /\ WF_vars(FirstCategoriesEvent)
  /\ WF_vars(FirstProductsEvent)

\* refused writes, with a view selection and the modal around them
NextRefusals ==
  \/ DeliverCategories
  \/ DeliverProducts
  \/ SelectCategory
  \/ SelectSubcategory
  \/ ToggleViewMode
  \/ Open
  \/ CloseModal
  \/ Loaded /\ RefusedWrite

SpecRefusals == InitHistory /\ [][NextRefusals]_vars

\* the admin panel is rendered, on lists that are up to date
InAdminPanel == Current /\ viewMode = "admin"

\* every way the view selection changes
NextView ==
  \/ DeliverCategories
  \/ DeliverProducts
  \/ SelectCategory
  \/ SelectSubcategory
  \/ NavigateBack
  \/ ToggleViewMode
  \/ Logout
  \/ NativeBack
  \/ NativeForward
  \/ InAdminPanel /\ DeleteCategory
  \/ InAdminPanel /\ DeleteSubcategory

SpecView == InitHistory /\ [][NextView]_vars

\* navigation on a session history that also gets entries without state
NextFragments ==
  \/ DeliverCategories
  \/ DeliverProducts
  \/ SelectCategory
  \/ SelectSubcategory
  \/ ToggleViewMode
  \/ FragmentNavigation
  \/ NativeBack
  \/ NativeForward

SpecFragments == InitHistory /\ [][NextFragments]_vars

\* the app has mounted on one of the landing histories, on a store holding
\* one category and one product
InitMount ==
  /\ storeCats = SeededCats
  /\ storeProds = SeededProds
  /\ nextCatKey = 2
  /\ nextProdKey = 2
  /\ categories = EmptyCats
  /\ items = EmptyProds
  /\ initialCategoriesLoaded = FALSE
  /\ initialItemsLoaded = FALSE
  /\ categoriesSubscribed = TRUE
  /\ itemsSubscribed = ProductsSubscribed(initialCategoriesLoaded)
  /\ \E l \in LandingHistories : InitView("stock", MountOn(l[1], l[2]))

SpecMount == InitMount /\ [][NextHistory]_vars

\* snapshots between removals and deletions that run on whatever lists the
\* client holds
NextSnapshots ==
  \/ DeliverCategories
  \/ DeliverProducts
  \/ Loaded /\ DeleteItem
  \/ Loaded /\ SellItemSize
  \/ Loaded /\ AddSubcategory
  \/ Loaded /\ DeleteCategory
  \/ Loaded /\ DeleteSubcategory

SpecSnapshots == InitHistory /\ [][NextSnapshots]_vars

\* another writer removes categories; the store delivers every change, and
\* the user saves when the user likes
NextReconcile ==
  \/ DeliverCategories
  \/ DeliverProducts
  \/ RemoteRemoveCategory
  \/ Current /\ SaveItem
  \/ Current /\ AddCategory

SpecReconcile ==
  /\ InitHistory
  /\ [][NextReconcile]_vars
  /\ WF_vars(DeliverCategories)
  /\ WF_vars(DeliverProducts)

\* the app has mounted on a store holding one category and one product,
\* loaded both collections, and the admin view has been opened
InitSaveFlow ==
  /\ storeCats = SeededCats
  /\ storeProds = SeededProds
  /\ nextCatKey = 2
  /\ nextProdKey = 2
  /\ categories = CategoriesFromSnapshot(SeededCats)
  /\ items = ItemsFromSnapshot(SeededProds)
  /\ initialCategoriesLoaded = TRUE
  /\ initialItemsLoaded = TRUE
  /\ categoriesSubscribed = TRUE
  /\ itemsSubscribed = ProductsSubscribed(initialCategoriesLoaded)
  /\ InitView("admin", InAdminView)

\* the form's saves with the store answering in its own time
NextSaveFlow ==
  \/ Open
  \/ CloseModal
  \/ SubmitForm
  \/ SaveApplied
  \/ SaveRefused
  \/ SaveTimeout

\* the browser fires the timer of a race that has not settled; the store
\* owes no answer
SpecSaveFlow ==
  /\ InitSaveFlow
  /\ [][NextSaveFlow]_vars
  /\ WF_vars(SaveTimeout)

\* a store holding one category and one product with MaxQty pieces of each
\* size the model sells
StockedProds ==
  [k \in ProdIds |->
     IF k = 1
     THEN FullProd("Runner", "SH-1", 50, "Shoes", "Boots",
                   [s \in Sizes |-> IF s \in SoldSizes THEN MaxQty ELSE 0])
     ELSE NoProd]

InitSells ==
  /\ storeCats = SeededCats
  /\ storeProds = StockedProds
  /\ nextCatKey = 2
  /\ nextProdKey = 2
  /\ categories = EmptyCats
  /\ items = EmptyProds
  /\ initialCategoriesLoaded = FALSE
  /\ initialItemsLoaded = FALSE
  /\ categoriesSubscribed = TRUE
  /\ itemsSubscribed = ProductsSubscribed(initialCategoriesLoaded)
  /\ InitView("stock", Mounted)

\* sells by this client and by another one, and nothing else that writes
NextSells ==
  \/ DeliverCategories
  \/ DeliverProducts
  \/ Loaded /\ SellItemSize
  \/ RemoteSell

SpecSells == InitSells /\ [][NextSells]_vars

\* removals by another client, with this client's sells and deletions on
\* whatever lists it holds
NextRemovals ==
  \/ DeliverCategories
  \/ DeliverProducts
  \/ RemoteRemoveProduct
  \/ Loaded /\ SellItemSize
  \/ Loaded /\ DeleteCategory
  \/ Loaded /\ DeleteSubcategory

SpecRemovals == InitHistory /\ [][NextRemovals]_vars

\* every handler on lists that are up to date, its write taken or refused
NextWrites ==
  \/ DeliverCategories
  \/ DeliverProducts
  \/ Current /\ SaveItem
  \/ Current /\ DeleteItem
  \/ Current /\ SellItemSize
  \/ Current /\ AddCategory
  \/ Current /\ DeleteCategory
  \/ Current /\ AddSubcategory
  \/ Current /\ DeleteSubcategory
  \/ Current /\ RefusedOperation

\* on a store holding one category and one product
SpecWrites == InitHistory /\ [][NextWrites]_vars

----------------------------------------------------------------------------
(* Properties.  Under Spec a handler runs on lists equal to the store, and *)
(* leaves the lists alone: in the state a handler leaves, categories and   *)
(* items are the store as it was before the handler ran.                   *)

StoredCategories == {k \in CatIds : CatExists(storeCats[k])}
StoredProducts == {k \in ProdIds : ProdExists(storeProds[k])}

\* cats has a category named "Uncategorized" whose list includes "Default"
HoldsUncategorizedWithDefault(cats) ==
  \E k \in DOMAIN cats : /\ CatExists(cats[k])
                         /\ cats[k].name = Uncategorized
                         /\ Includes(cats[k].subcategories, Default)

\* cats has a category of the product's category name whose list includes
\* the product's subcategory
PlacedIn(cats, p) ==
  \E k \in DOMAIN cats : /\ CatExists(cats[k])
                         /\ cats[k].name = p.category
                         /\ Includes(cats[k].subcategories, p.subcategory)

\* the store is as the client lists it
StoreAsListed ==
  /\ CategoriesFromSnapshot(storeCats) = categories
  /\ ItemsFromSnapshot(storeProds) = items

\* C1: in every state, every stored product's category names a stored
\* category, and that category's subcategory list contains the product's
\* subcategory.
C1_ProductInvariant ==
  \A k \in StoredProducts : PlacedIn(storeCats, storeProds[k])

\* the last handler was an accepted save of an item whose category the
\* client's categories do not have
SavedUnknownCategory ==
  /\ lastOp.op = "save"
  /\ lastOp.ok
  /\ FindCatByName(categories, lastOp.item.category) = 0

\* the last handler was an accepted save of an item whose category the
\* client's categories have, without the item's subcategory in its list
SavedUnknownSubcategory ==
  /\ lastOp.op = "save"
  /\ lastOp.ok
  /\ FindCatByName(categories, lastOp.item.category) # 0
  /\ ~Includes(categories[FindCatByName(categories, lastOp.item.category)].subcategories,
               lastOp.item.subcategory)

SavedInFallback ==
  /\ storeProds[lastOp.pid].category = Uncategorized
  /\ storeProds[lastOp.pid].subcategory = Default
  /\ HoldsUncategorizedWithDefault(storeCats)

\* C2 as stated: after a save of an item whose category or subcategory is
\* not in the client's categories, the stored product is in ("Uncategorized",
\* "Default") and the store has "Uncategorized" with "Default".
C2_SaveFallsBack ==
  (SavedUnknownCategory \/ SavedUnknownSubcategory) => SavedInFallback

\* C2: after a save of an item whose category is not in the client's
\* categories, the stored product is in ("Uncategorized", "Default") and the
\* store has "Uncategorized" with "Default"; after a save of an item whose
\* category is there but whose subcategory is not in its list, the stored
\* product keeps its category with subcategory "Default", and that category's
\* list in the store includes "Default".
C2_SaveFallsBackByCategory ==
  /\ SavedUnknownCategory => SavedInFallback
  /\ SavedUnknownSubcategory =>
       /\ storeProds[lastOp.pid].category = lastOp.item.category
       /\ storeProds[lastOp.pid].subcategory = Default
       /\ PlacedIn(storeCats, storeProds[lastOp.pid])

C2_Witness ==
  /\ SavedUnknownCategory
  /\ ProdExists(storeProds[lastOp.pid])
  /\ storeProds[lastOp.pid].category = Uncategorized
  /\ lastOp.item.category # Uncategorized

\* C3: after an accepted delete of a category C other than "Uncategorized",
\* every product that was in C is in ("Uncategorized", "Default"), the store
\* has no entry under C's key and none of C's name, and it has "Uncategorized"
\* with "Default"; a delete of "Uncategorized" issues no write and leaves the
\* store as it was.
C3_DeleteCategory ==
  lastOp.op = "deleteCategory" =>
    IF lastOp.cname = Uncategorized
    THEN lastOp.calls = 0 /\ StoreAsListed
    ELSE lastOp.ok =>
           /\ \A k \in ItemsInCategory(items, lastOp.cname) :
                /\ storeProds[k].category = Uncategorized
                /\ storeProds[k].subcategory = Default
           /\ ~CatExists(storeCats[lastOp.cid])
           /\ FindCatByName(storeCats, lastOp.cname) = 0
           /\ HoldsUncategorizedWithDefault(storeCats)

C3_Witness ==
  /\ lastOp.op = "deleteCategory"
  /\ lastOp.ok
  /\ lastOp.cname # Uncategorized
  /\ ItemsInCategory(items, lastOp.cname) # {}
  /\ ~CatExists(storeCats[lastOp.cid])

\* C4: after an accepted delete of subcategory S of category C, every
\* product that was in (C, S) is in (C, "Default"); and when S was the only
\* subcategory of C and C is not "Uncategorized", the list of C is exactly
\* <<"Default">> after the handler.
C4_DeleteSubcategory ==
  lastOp.op = "deleteSubcategory" =>
    /\ lastOp.ok =>
         \A k \in ItemsInSubcategory(items, lastOp.cname, lastOp.sname) :
           /\ storeProds[k].category = lastOp.cname
           /\ storeProds[k].subcategory = Default
    /\ ( /\ lastOp.ok \/ lastOp.calls = 0
         /\ categories[lastOp.cid].subcategories = <<lastOp.sname>>
         /\ lastOp.cname # Uncategorized )
       => storeCats[lastOp.cid].subcategories = <<Default>>

C4_Witness ==
  /\ lastOp.op = "deleteSubcategory"
  /\ lastOp.ok
  /\ lastOp.sname # Default
  /\ lastOp.cname # Uncategorized
  /\ categories[lastOp.cid].subcategories = <<lastOp.sname>>
  /\ ItemsInSubcategory(items, lastOp.cname, lastOp.sname) # {}

\* the quantity the sold size had when the last sell ran
SoldFrom ==
  IF lastOp.pid \in ListedItems THEN QtyOf(items[lastOp.pid], lastOp.size) ELSE 0

C6_StockNonNegative ==
  \A k \in ProdIds : \A s \in Sizes : storeProds[k].sizes[s] \in Nat

\* a sell from a list older than the store: the product has been deleted,
\* and the sell has written the size at 0 under its key
C6_Witness ==
  /\ lastOp.op = "sell"
  /\ lastOp.ok
  /\ storeProds[lastOp.pid].has = {lastOp.size}
  /\ storeProds[lastOp.pid].sizes[lastOp.size] = 0

\* the last handler was a save of an item whose category the client's
\* categories have, with the item's subcategory in its list
SavedValid ==
  /\ lastOp.op = "save"
  /\ FindCatByName(categories, lastOp.item.category) # 0
  /\ Includes(categories[FindCatByName(categories, lastOp.item.category)].subcategories,
              lastOp.item.subcategory)

\* the record a save of the item writes when it changes neither name
SavedAsGiven ==
  FullProd(lastOp.item.name, lastOp.item.sku, lastOp.item.price, lastOp.item.category,
           lastOp.item.subcategory, lastOp.item.sizes)

\* C7 as stated: a save of an item whose category and subcategory are valid
\* schedules no write.
C7_ValidSaveWritesNothing ==
  SavedValid => lastOp.paths = 0 /\ lastOp.calls = 0

\* C7: a save of an item whose category and subcategory are valid schedules
\* one write of one path, the product's own record with the category and
\* subcategory as given: no category is written and no other product
\* changes; and a save of a listed item with the data the list already has
\* for it leaves the whole store as it was.
C7_ValidSaveWritesProductOnly ==
  SavedValid =>
    /\ lastOp.calls = 1
    /\ lastOp.paths = 1
    /\ lastOp.ok =>
         /\ CategoriesFromSnapshot(storeCats) = categories
         /\ storeProds[lastOp.pid] = SavedAsGiven
         /\ \A k \in ProdIds \ {lastOp.pid} : ItemFromSnapshot(storeProds[k]) = items[k]
         /\ (lastOp.item.id # 0 /\ items[lastOp.item.id] = SavedAsGiven) => StoreAsListed

C7_Witness ==
  /\ SavedValid
  /\ lastOp.ok
  /\ lastOp.item.id # 0
  /\ items[lastOp.item.id] = SavedAsGiven
  /\ storeProds[lastOp.pid] = SavedAsGiven

\* the kinds of the events since mount, in order
EventKinds == [i \in 1..Len(navLog) |-> navLog[i].ev]

\* C8: after three in-app navigations from the mounted app and two native
\* backs, the view tuple is the one the first navigation left; after a
\* native forward more, it is the one the second navigation left.
C8_HistoryRoundTrip ==
  /\ EventKinds = <<"nav", "nav", "nav", "back", "back">> => View = navLog[1].view
  /\ EventKinds = <<"nav", "nav", "nav", "back", "back", "forward">>
       => View = navLog[2].view

\* C9: in every state, no two stored categories have names that are equal
\* ignoring case.
C9_NamesUniqueIgnoringCase ==
  \A j, k \in StoredCategories :
    j # k => ToLowerCase(storeCats[j].name) # ToLowerCase(storeCats[k].name)

\* C10: in every state, at most one stored category is named "Uncategorized",
\* handlers running on lists older than the store included.
C10_OneUncategorized ==
  Cardinality({k \in StoredCategories : storeCats[k].name = Uncategorized}) <= 1

\* the stored categories named "Uncategorized"
StoredUncategorized == {k \in StoredCategories : storeCats[k].name = Uncategorized}

ListedInFallback ==
  {k \in ListedItems : /\ items[k].category = Uncategorized
                       /\ items[k].subcategory = Default}

\* C13: in every state of a client whose only product writes are saves, a
\* listed product in ("Uncategorized", "Default") comes with a listed
\* category "Uncategorized" holding "Default".
C13_FallbackSaveSeenWhole ==
  ListedInFallback # {} => HoldsUncategorizedWithDefault(categories)

\* C14: in every state in which the categories have not loaded, the products
\* listener is not attached, the item list is empty and the products have
\* not loaded.
C14_ProductsGated ==
  ~initialCategoriesLoaded =>
    /\ ~itemsSubscribed
    /\ items = EmptyProds
    /\ ~initialItemsLoaded

C14_Witness ==
  /\ ~initialCategoriesLoaded
  /\ StoredProducts # {}
  /\ ~itemsSubscribed
  /\ items = EmptyProds

\* C15: when each listener's first event, a snapshot or an error, eventually
\* arrives, both loaded flags eventually hold and keep holding; and an error
\* callback that runs before any snapshot of its collection sets the
\* collection's flag and leaves the collection empty.
C15_LoadingEnds ==
  /\ <>[]Loaded
  /\ [][/\ (lastOp'.op = "categoriesError" /\ ~initialCategoriesLoaded) =>
             (initialCategoriesLoaded' /\ categories' = EmptyCats)
        /\ (lastOp'.op = "productsError" /\ ~initialItemsLoaded) =>
             (initialItemsLoaded' /\ items' = EmptyProds)]_vars

C15_Witness ==
  /\ lastOp.op = "productsError"
  /\ Loaded
  /\ StoredProducts # {}
  /\ items = EmptyProds

\* the handler of this step issued a write and the store refused it
WriteRefused == lastOp'.calls = 1 /\ ~lastOp'.ok

\* C16: a step of an engine operation whose write the store refuses leaves
\* the store, the client's categories and items, the view selection and the
\* modal as they were.
C16_RefusedWriteChangesNothing ==
  [][WriteRefused =>
       UNCHANGED <<storeCats, storeProds, categories, items, viewVars, modalVars>>]_vars

C16_Witness ==
  /\ lastOp.op = "submit"
  /\ lastOp.calls = 1
  /\ ~lastOp.ok
  /\ isModalOpen
  /\ selectedCategoryForView # Null

\* C17: in every state, a selected subcategory comes with a selected category.
C17_SubcategoryImpliesCategory ==
  selectedSubcategoryForView # Null => selectedCategoryForView # Null

\* a deletion has cleared a selection that held a subcategory
C17_Witness ==
  /\ lastOp.op = "deleteCategory"
  /\ lastOp.ok
  /\ selectedCategoryForView = Null
  /\ selectedSubcategoryForView = Null
  /\ navLog # <<>>
  /\ navLog[Len(navLog)].view[2] = lastOp.cname
  /\ navLog[Len(navLog)].view[3] # Null

\* the handler of this step is a category or a subcategory deletion
DeletionStep == lastOp'.op \in {"deleteCategory", "deleteSubcategory"}

Elements(seq) == {seq[i] : i \in 1..Len(seq)}

\* the key of the category the last handler's item states
SavedCategoryKey == FindCatByName(categories, lastOp.item.category)

\* C19: an accepted save of an item whose category the client lists, without
\* the item's subcategory in its list, issues one write; after it the product
\* has the item's category and subcategory "Default", and the category's list
\* is the old list when that held "Default", and otherwise the old entries
\* and "Default", one entry more.
C19_UnknownSubcategoryToDefault ==
  SavedUnknownSubcategory =>
    LET old == categories[SavedCategoryKey].subcategories
        new == storeCats[SavedCategoryKey].subcategories
    IN /\ lastOp.calls = 1
       /\ storeProds[lastOp.pid].category = lastOp.item.category
       /\ storeProds[lastOp.pid].subcategory = Default
       /\ storeCats[SavedCategoryKey].name = lastOp.item.category
       /\ IF Includes(old, Default)
          THEN new = old
          ELSE /\ Elements(new) = Elements(old) \cup {Default}
               /\ Len(new) = Len(old) + 1

C19_Witness ==
  /\ SavedUnknownSubcategory
  /\ lastOp.paths = 2
  /\ ~Includes(categories[SavedCategoryKey].subcategories, Default)
  /\ Includes(storeCats[SavedCategoryKey].subcategories, Default)
  /\ storeProds[lastOp.pid].subcategory = Default

\* C20: after an accepted delete of subcategory S of category C, every
\* product that was in (C, S) has a subcategory that is in C's stored list.
C20_ReassignedIntoList ==
  (lastOp.op = "deleteSubcategory" /\ lastOp.ok) =>
    \A k \in ItemsInSubcategory(items, lastOp.cname, lastOp.sname) :
      Includes(storeCats[lastOp.cid].subcategories, storeProds[k].subcategory)

\* the last handler was a delete of "Default" from "Uncategorized", or from
\* another category whose list was <<"Default">>
DeletedProtectedDefault ==
  /\ lastOp.op = "deleteSubcategory"
  /\ lastOp.sname = Default
  /\ \/ lastOp.cname = Uncategorized
     \/ categories[lastOp.cid].subcategories = <<Default>>

\* C21: a delete of "Default" from "Uncategorized", or from another category
\* whose only subcategory is "Default", issues no write, and the store's
\* categories and products are what they were.
C21_ProtectedDefaultRejected ==
  DeletedProtectedDefault => (lastOp.calls = 0 /\ lastOp.paths = 0 /\ StoreAsListed)

C21_Witness ==
  /\ DeletedProtectedDefault
  /\ lastOp.cname # Uncategorized
  /\ storeCats[lastOp.cid].subcategories = <<Default>>
  /\ StoredUncategorized # {}

\* this step is a native back or forward
PopStep == lastOp'.op \in {"back", "forward"}

\* the entry the browser has moved to in this step, as it was before the step
Popped == hist[histPos']

\* the view tuple an entry holds
EntryView(entry) ==
  <<entry.viewMode, entry.selectedCategoryForView, entry.selectedSubcategoryForView>>

C23_PopPushesNothing ==
  [][PopStep =>
       /\ Len(hist') = Len(hist)
       /\ histPos' = IF lastOp'.op = "back" THEN histPos - 1 ELSE histPos + 1]_vars

\* a native back has changed the view tuple with entries ahead of it
C23_Witness ==
  /\ lastOp.op = "back"
  /\ Len(navLog) > 1
  /\ navLog[Len(navLog) - 1].view # View
  /\ histPos < Len(hist)
  /\ hist[histPos].app = APP_HISTORY_KEY

\* this step is an in-app change of the view tuple
InAppStep ==
  /\ lastOp'.op \in {"selectCategory", "selectSubcategory", "toggleViewMode"}
  /\ View' # View

\* C24: an in-app change of the view tuple raises historyIndexRef by one and
\* pushes one tagged entry holding the new tuple and the new index.
C24_InAppChangePushes ==
  [][InAppStep =>
       /\ historyIndexRef' = historyIndexRef + 1
       /\ histPos' = histPos + 1
       /\ hist' = PushState(hist, histPos,
                            buildHistoryState(viewMode', selectedCategoryForView',
                                              selectedSubcategoryForView',
                                              historyIndexRef + 1))]_vars

\* C25: a native back or forward onto an entry without the app tag leaves the
\* view tuple, historyIndexRef and isHandlingPopStateRef as they were.
C25_UntaggedPopIgnored ==
  [][(PopStep /\ Popped.app # APP_HISTORY_KEY) =>
       UNCHANGED <<viewVars, historyIndexRef, isHandlingPopStateRef>>]_vars

\* a native forward has landed on an entry without the tag, from an entry
\* holding another tuple than the view
C25_Witness ==
  /\ lastOp.op = "forward"
  /\ hist[histPos].app # APP_HISTORY_KEY
  /\ hist[histPos - 1].app = APP_HISTORY_KEY
  /\ ~isHandlingPopStateRef
  /\ selectedCategoryForView # Null

\* C26: an in-app navigate back made while historyIndexRef is 0 clears the
\* subcategory if one is selected and the category otherwise, and leaves the
\* session history, the position in it and historyIndexRef as they were.
C26_CollapseLeavesHistory ==
  [][(lastOp'.op = "navigateBack" /\ historyIndexRef = 0) =>
       /\ View' = IF selectedSubcategoryForView # Null
                  THEN <<viewMode, selectedCategoryForView, Null>>
                  ELSE <<viewMode, Null, Null>>
       /\ UNCHANGED <<hist, histPos, historyIndexRef>>]_vars

\* the first entry of the session history has index 0: the page was loaded on
\* an entry without the tag or on one of index 0
MountedAtIndexZero == hist[1].historyIndex = 0

\* C27: after a mount on an entry without the tag or of index 0, the session
\* history is the landing tuple tagged with index 0 followed by one entry
\* holding the landing tuple with index 1, which is the current one; and
\* after one native back from there the current entry is tagged and the view
\* is the landing tuple.
C27_MountSeedsHistory ==
  MountedAtIndexZero =>
    /\ navLog = <<>> =>
         /\ hist = <<buildHistoryState("stock", Null, Null, 0),
                     buildHistoryState("stock", Null, Null, 1)>>
         /\ histPos = 2
         /\ historyIndexRef = 1
    /\ EventKinds = <<"back">> =>
         /\ histPos = 1
         /\ hist[histPos].app = APP_HISTORY_KEY
         /\ EntryView(hist[histPos]) = View
         /\ View = <<"stock", Null, Null>>

C27_Witness ==
  /\ MountedAtIndexZero
  /\ EventKinds = <<"back">>
  /\ histPos = 1
  /\ Len(hist) = 2

\* C28: in every state in which the current entry of the session history is
\* tagged, the entry holds the view tuple and historyIndexRef.
C28_HistoryInSync ==
  hist[histPos].app = APP_HISTORY_KEY =>
    /\ EntryView(hist[histPos]) = View
    /\ hist[histPos].historyIndex = historyIndexRef

\* the item a products snapshot makes of the record stored under k
Delivered(k) ==
  /\ ProdExists(items'[k])
  /\ items'[k].name = storeProds[k].name
  /\ items'[k].sku = storeProds[k].sku
  /\ items'[k].price = storeProds[k].price
  /\ items'[k].category = storeProds[k].category
  /\ items'[k].subcategory = storeProds[k].subcategory
  /\ IF storeProds[k].has \cap Sizes = {}
     THEN items'[k].sizes = ZeroSizes /\ Sizes \subseteq items'[k].has
     ELSE items'[k].sizes = storeProds[k].sizes

\* C29: a categories snapshot leaves the client's categories equal to the
\* stored ones, key by key, and a products snapshot leaves the client's items
\* equal to the stored products, one without a sizes field with every size
\* at 0; every other step leaves the list as it was.
C29_LastSnapshotWins ==
  [][/\ IF lastOp'.op = "categoriesSnapshot"
        THEN \A k \in CatIds : categories'[k] = storeCats[k]
        ELSE categories' = categories
     /\ IF lastOp'.op = "productsSnapshot"
        THEN \A k \in ProdIds :
               IF ProdExists(storeProds[k]) THEN Delivered(k)
               ELSE ~ProdExists(items'[k])
        ELSE items' = items]_vars

\* a products snapshot has delivered a record without a sizes field, after
\* an earlier snapshot that listed the product whole
C29_Witness ==
  /\ lastOp.op = "productsSnapshot"
  /\ \E k \in StoredProducts :
       /\ storeProds[k].has \cap Sizes = {}
       /\ items[k].sizes = ZeroSizes
       /\ Sizes \subseteq items[k].has
       /\ items[k].name = Undefined

\* the client has loaded its categories, and they do not place the product
\* stored under k
SeenDangling(k) ==
  /\ initialCategoriesLoaded
  /\ ProdExists(storeProds[k])
  /\ ~PlacedIn(categories, storeProds[k])

\* C30: when the client's categories, once loaded, do not place a stored
\* product, the product is eventually stored in ("Uncategorized", "Default"),
\* with the store delivering its snapshots and no operation owed by the user.
C30_DanglingProductMigrated ==
  \A k \in ProdIds :
    SeenDangling(k) ~> (/\ storeProds[k].category = Uncategorized
                        /\ storeProds[k].subcategory = Default)

\* this step is a handler of App that can write to the store
EngineStep ==
  lastOp'.op \in {"save", "deleteItem", "sell", "addCategory", "deleteCategory",
                  "addSubcategory", "deleteSubcategory"}

\* the update map the handler of this step has built from the client's lists
IssuedUpdate ==
  CASE lastOp'.op = "save" ->
         SaveItemUpdates(categories, lastOp'.item, nextCatKey, nextProdKey)
    [] lastOp'.op = "deleteItem" -> DeleteItemUpdates(lastOp'.pid)
    [] lastOp'.op = "sell" -> SellUpdates(items, lastOp'.pid, lastOp'.size)
    [] lastOp'.op = "addCategory" -> AddCategoryUpdates(lastOp'.cname, nextCatKey)
    [] lastOp'.op = "deleteCategory" ->
         DeleteCategoryUpdates(categories, items, lastOp'.cid, lastOp'.cname, nextCatKey)
    [] lastOp'.op = "addSubcategory" ->
         AddSubcategoryUpdates(categories, lastOp'.cid, lastOp'.sname)
    [] lastOp'.op = "deleteSubcategory" ->
         DeleteSubcategoryUpdates(categories, items, lastOp'.cid, lastOp'.cname,
                                  lastOp'.sname)

C32_SaveFlowEnds ==
  /\ isProcessing ~> ~isProcessing
  /\ [][lastOp'.op = "saveTimeout" =>
          /\ UNCHANGED <<storeCats, storeProds>>
          /\ Len(saves') = Len(saves)
          /\ \A i \in 1..Len(saves) : saves'[i].u = saves[i].u]_vars

\* the store has applied the write of a save after the save had timed out
\* in the modal that is still open
C32_Witness ==
  /\ lastOp.op = "saveAppliedLate"
  /\ ~isProcessing
  /\ ~isModalOpen
  /\ saves = <<>>
  /\ storeProds[lastOp.pid] # SeededProds[lastOp.pid]
  /\ storeProds[lastOp.pid].sizes = lastOp.item.sizes

\* the submitted data breaks a rule of the form: a name or a SKU that is
\* empty once trimmed, a negative price or quantity, a category the client
\* does not list, or a subcategory that is not in the category's list
InvalidSubmission(item) ==
  \/ item.name = ""
  \/ item.sku = ""
  \/ item.price < 0
  \/ \E size \in Sizes : item.sizes[size] < 0
  \/ FindCatByName(categories, item.category) = 0
  \/ ~Includes(categories[FindCatByName(categories, item.category)].subcategories,
               item.subcategory)

\* C33: a submit of data that breaks a rule of the form issues no write and
\* leaves the store as it was and the modal open on the same item.
C33_InvalidSubmitWritesNothing ==
  [][(lastOp'.op = "submit" /\ InvalidSubmission(lastOp'.item)) =>
       /\ lastOp'.calls = 0
       /\ UNCHANGED <<storeCats, storeProds, isModalOpen, editingItem>>
       /\ isModalOpen']_vars

\* a submit with a category the client does not list has been turned down,
\* with a product stored and the modal open on it
C33_Witness ==
  /\ lastOp.op = "submit"
  /\ lastOp.item.category = "Hats"
  /\ lastOp.calls = 0
  /\ isModalOpen
  /\ editingItem # 0
  /\ StoredProducts # {}

\* the list is in the order of Array.prototype.sort() with no entry twice
SortedWithoutDuplicates(seq) ==
  \A i, j \in 1..Len(seq) : i < j => CodeUnitRank(seq[i]) < CodeUnitRank(seq[j])

SuccessfulSell ==
  /\ lastOp'.op \in {"sell", "remoteSell"}
  /\ lastOp'.calls = 1
  /\ lastOp'.ok

\* C35: with sells as the only writes, every successful sell leaves the
\* stored quantity of its size one below what it was, so that k successful
\* sells leave it k below the initial quantity.
C35_SellLowersByOne ==
  [][SuccessfulSell =>
       storeProds'[lastOp'.pid].sizes[lastOp'.size]
         = storeProds[lastOp'.pid].sizes[lastOp'.size] - 1]_vars

\* the fields every record under /products carries
FullFieldSet(p) ==
  /\ {"name", "sku", "category", "subcategory", "price"} \subseteq p.has
  /\ p.has \cap Sizes # {}

\* C36: in every state, every record stored under /products carries name,
\* sku, category, subcategory, sizes and price: no write lands under the key
\* of a removed product.
C36_RemovedStaysRemoved ==
  \A k \in StoredProducts : FullFieldSet(storeProds[k])

\* the selection names a listed category, and a subcategory of it
SelectionListed ==
  LET k == FindCatByName(categories, selectedCategoryForView)
  IN /\ selectedCategoryForView # Null => k # 0
     /\ selectedSubcategoryForView # Null =>
          /\ k # 0
          /\ Includes(categories[k].subcategories, selectedSubcategoryForView)

\* C37: in every state of the stock view, a selected category is in the
\* client's category list and a selected subcategory is in that category's
\* list.
C37_SelectionListed ==
  viewMode = "stock" => SelectionListed

\* the positions of the session history whose entry carries this app's tag
TaggedPositions == {i \in 1..Len(hist) : hist[i].app = APP_HISTORY_KEY}

\* C38: in every state, of two tagged entries of the session history the one
\* further up the stack carries the larger historyIndex.
C38_IndexIncreasesWithPosition ==
  \A i, j \in TaggedPositions :
    i < j => hist[i].historyIndex < hist[j].historyIndex

\* three tagged entries, the last pushed by a selection made after a native
\* back had moved down the stack
C38_Witness ==
  /\ lastOp.op = "selectCategory"
  /\ \E i \in 1..Len(navLog) : navLog[i].ev \in {"back", "navigateBack"}
  /\ histPos = Len(hist)
  /\ Cardinality(TaggedPositions) >= 3
  /\ TaggedPositions = 1..Len(hist)

\* the store takes a save whose modal has been closed since it was sent
OrphanedSaveApplied ==
  /\ saves # <<>>
  /\ Head(saves).stage = "orphaned"
  /\ lastOp'.op = "saveAppliedLate"

\* C39: when the store takes a save that timed out and whose modal the user
\* has closed since, a modal opened after that stays open, with its editing
\* item.
C39_LateSaveLeavesNewModal ==
  [][OrphanedSaveApplied => UNCHANGED <<isModalOpen, editingItem>>]_vars

====
